---- MODULE Spec2Model ----
(***************************************************************************)
(* M3U8 segment downloader: downloadM3U8Video (m3u8-downloader), its       *)
(* ordered write sequencer (flushPendingWrites / writeLock), the           *)
(* PauseResumeController, the StreamingTransmuxer and the writable stream  *)
(* the run writes to.                                                      *)
(*                                                                         *)
(* The program runs on one JavaScript event loop.  A step of the model is  *)
(* the code that runs between two awaits.  A continuation whose awaited    *)
(* promise is already settled is a microtask: it runs before the next task *)
(* (timer, network completion, stream completion, user action), so every   *)
(* task-level action is guarded by ~Busy.                                  *)
(***************************************************************************)
EXTENDS Integers, Sequences, FiniteSets, TLC

\* ---- bounds of the model ----
NumSeg == 3
ListLen == 4
MaxClicks == 2
NumUrl == 2
MaxBandwidth == 2
MaxVariants == 2
MaxLines == 4
MaxRange == 200
\* if (depth > 5) throw
MaxDepth == 5
MaxConc == 2
MaxRetryBudget == 1

\* ---- encodings ----
NoEntry == 0 - 1
failed == 0 - 2
InitSegment == 5
SegmentData(i) == 10 + i
Mp4Data(i) == 20 + i
PassId == 0

\* indices of task.tsUrlList; the ranges of Options lie in the first NumSeg
Segs == 0 .. (ListLen - 1)
Workers == 1 .. MaxConc

VARIABLES
  \* parameters of the run (fixed at Init)
  concurrency, maxRetries, streamMode, taskType, startSegment, endSegment,
  writer,
  \* M3U8Task
  finishList, finishNum, errorNum, downloadedSegments,
  \* session state of downloadM3U8Video
  downloadQueue, pendingWrites, nextWriteIndex, completedCount,
  \* writeLock promise chain: passes appended, passes fulfilled, rejection
  chainLen, chainDone, chainErr, passPc,
  \* workers (processQueue / downloadSegment)
  wpc, widx, wretry, wawait, werr, firstReject,
  \* the body of downloadM3U8Video after the workers are launched
  mpc, mawait, merr, artifact,
  \* completeStreamRef.current, called by the early-finalize handler
  fpc, fawait,
  \* AbortSignal and PauseResumeController
  aborted, isPaused, pausePromise, resumeResolve, blocked,
  \* WritableStream behind the writer
  wstate, wq, sunk, closeCount, abortCount,
  \* StreamingTransmuxer
  isFirstSegment, writeError,
  \* progress events
  doneCount, lastEvent,
  \* observation of the run (not program state)
  taken, attempts, lateWrite, rejectedWrite,
  signal, pauseResumeController, completeStreamRef,
  \* PauseResumeController: callers suspended on a promise whose resolver
  \* was dropped, and the last method called (observation)
  orphaned, lastCall,
  \* parseM3U8: position, url of the outermost call, url being fetched,
  \* depth, text of the last manifest fetched, requests issued, outcome of
  \* the last call
  rpc, entryUrl, rurl, depth, m3u8Str, fetchCount, keyFetches, presult,
  \* AddDownloadModal state, and the last argument of onAddTask
  isOpen, editableUrl, task, isLoading, added,
  \* SegmentViewer: segment of each handleRetryAllFailed worker, segments
  \* retried by a click, retryQueue, the retryingSegments state, clicks made;
  \* DownloadManager: viewer shown, position of the merge trigger, merges run
  rw, single, retryQueue, retryingSegments, clicks, viewing, mergePc, merges,
  \* parseM3U8 on a media manifest: the lines of the text, the task built
  lines, mediaTask

params == <<concurrency, maxRetries, streamMode, taskType, startSegment,
            endSegment, writer, signal, pauseResumeController,
            completeStreamRef>>
taskVars == <<finishList, finishNum, errorNum, downloadedSegments>>
chainVars == <<chainLen, chainDone, chainErr, passPc>>
workerVars == <<wpc, widx, wretry, wawait, werr, firstReject>>
mainVars == <<mpc, mawait, merr, artifact>>
finVars == <<fpc, fawait>>
pauseVars == <<isPaused, pausePromise, resumeResolve>>
streamVars == <<wstate, wq, sunk, closeCount, abortCount>>
muxVars == <<isFirstSegment, writeError>>
obsVars == <<taken, attempts, lateWrite, rejectedWrite>>
ctrlObs == <<orphaned, lastCall>>
parseVars == <<rpc, entryUrl, rurl, depth, m3u8Str, fetchCount, keyFetches,
               presult>>
modalVars == <<isOpen, editableUrl, task, isLoading, added>>
viewerVars == <<rw, single, retryQueue, retryingSegments, clicks, viewing,
                mergePc, merges>>
walkVars == <<lines, mediaTask>>
uiVars == <<parseVars, modalVars, viewerVars, walkVars>>

vars == <<params, taskVars, downloadQueue, pendingWrites, nextWriteIndex,
          completedCount, chainVars, workerVars, mainVars, finVars, aborted,
          pauseVars, blocked, streamVars, muxVars, doneCount, lastEvent,
          obsVars, ctrlObs, uiVars>>

\* ---- helpers ----
totalSegments == endSegment - startSegment + 1
Range == (startSegment - 1) .. (endSegment - 1)
Min(a, b) == IF a < b THEN a ELSE b
\* variant: one worker per segment, as far as there are worker slots
PoolSizePerSegment == Min(MaxConc, totalSegments)
\* for (i = 0; i < Math.min(concurrency, totalSegments); i++) workers.push
PoolSize == Min(concurrency, totalSegments)
Launched == 1 .. PoolSize

RECURSIVE RangeSeq(_, _)
RangeSeq(lo, hi) == IF lo > hi THEN <<>> ELSE <<lo>> \o RangeSeq(lo + 1, hi)

\* Math.floor((completedCount / totalSegments) * 100)
Percentage(cnt) == (cnt * 100) \div totalSegments

\* a call of a PauseResumeController method: the method, whether the
\* controller was paused, how many callers were suspended
Call(m, p, n) == [op |-> m, wasPaused |-> p, waiters |-> n]
NoCall == Call("none", FALSE, 0)

ProgressEvent(cur, pct, st) ==
  [current |-> cur, total |-> totalSegments, percentage |-> pct, status |-> st]

\* The combinations of options that are enumerated.  signal,
\* pauseResumeController and completeStreamRef are optional parameters:
\* DownloadManager passes all three, other callers may omit them.  Runs
\* without a StreamingTransmuxer are explored with all three present for
\* every concurrency, retry budget and range; runs through the
\* StreamingTransmuxer with all three for one worker, and for several
\* workers with the signal only and no retry budget.
Covered ==
  LET transmuxed == streamMode # "disabled" /\ writer /\ taskType = "MP4"
      full == signal /\ pauseResumeController /\ completeStreamRef
  IN  \/ ~transmuxed /\ full
      \/ transmuxed /\ concurrency = 1 /\ full
      \/ /\ transmuxed /\ concurrency > 1 /\ maxRetries = 0
         /\ signal /\ ~pauseResumeController /\ ~completeStreamRef

\* arguments of downloadM3U8Video
Options ==
  /\ concurrency \in 1 .. MaxConc
  /\ maxRetries \in 0 .. MaxRetryBudget
  /\ streamMode \in {"disabled", "file-system"}
  /\ taskType \in {"TS", "MP4"}
  /\ startSegment \in 1 .. NumSeg
  /\ endSegment \in startSegment .. NumSeg
  /\ writer \in (IF streamMode = "disabled" THEN {FALSE} ELSE {TRUE, FALSE})

\* the M3U8Task as the parser creates it
TaskFresh ==
  /\ finishList = [i \in Segs |-> [status |-> "", retryCount |-> 0]]
  /\ finishNum = 0
  /\ errorNum = 0
  /\ downloadedSegments = [i \in Segs |-> NoEntry]

\* state of a session at the first await of downloadM3U8Video
SessionFresh ==
  /\ downloadQueue = RangeSeq(startSegment - 1, endSegment - 1)
  /\ pendingWrites = [i \in Segs |-> NoEntry]
  /\ nextWriteIndex = startSegment - 1
  /\ completedCount = 0
  /\ chainLen = 0
  /\ chainDone = 0
  /\ chainErr = "none"
  /\ passPc = "idle"
  /\ wpc = [w \in Workers |->
              IF w <= PoolSize THEN "pq_wait" ELSE "unused"]
  /\ widx = [w \in Workers |-> 0]
  /\ wretry = [w \in Workers |-> 0]
  /\ wawait = [w \in Workers |-> 0]
  /\ werr = [w \in Workers |-> "none"]
  /\ firstReject = "none"
  /\ mpc = "await_all"
  /\ mawait = 0
  /\ merr = "none"
  /\ artifact = <<>>
  /\ fpc = "idle"
  /\ fawait = 0
  /\ aborted = FALSE
  /\ isPaused = FALSE
  /\ pausePromise = FALSE
  /\ resumeResolve = FALSE
  /\ blocked = {}
  /\ wstate = "writable"
  /\ wq = <<>>
  /\ sunk = <<>>
  /\ closeCount = 0
  /\ abortCount = 0
  /\ isFirstSegment = TRUE
  /\ writeError = FALSE
  /\ doneCount = 0
  /\ lastEvent = ProgressEvent(0, 0, "none")
  /\ taken = [i \in Segs |-> 0]
  /\ attempts = [i \in Segs |-> 0]
  /\ lateWrite = FALSE
  /\ rejectedWrite = FALSE
  /\ orphaned = {}
  /\ lastCall = NoCall

\* ---- manifests and the web they are fetched from ----
Urls == 1 .. NumUrl
NoUrl == 0

\* attribute lists NAME=value of a #EXT-X-STREAM-INF line: none, BANDWIDTH
\* alone, and the highest BANDWIDTH listed after an AVERAGE-BANDWIDTH of 1
AttrLists ==
  {<<>>}
  \cup {<<[name |-> "BANDWIDTH", value |-> v]>> : v \in 1 .. MaxBandwidth}
  \cup {<<[name |-> "AVERAGE-BANDWIDTH", value |-> 1],
          [name |-> "BANDWIDTH", value |-> MaxBandwidth]>>}

\* a #EXT-X-STREAM-INF line and the line after it: uri is NoUrl when that
\* line is missing, blank or a tag, else the url applyURL makes of it
Variants == [attrs : AttrLists, uri : {NoUrl} \cup Urls]

\* the text a manifest request answers with: a master playlist, a media
\* playlist (keyUri: the URI of its #EXT-X-KEY tag, NoUrl without one), or
\* a text that does not start with #EXTM3U (an error page for instance)
Doc(k, vs, ku) == [kind |-> k, variants |-> vs, keyUri |-> ku]
NoDoc == Doc("none", <<>>, NoUrl)
OtherText == Doc("other", <<>>, NoUrl)
\* fetch(url) rejects ("unreachable") or resolves, whatever the HTTP status
Unreachable == Doc("unreachable", <<>>, NoUrl)
Responses ==
  {Unreachable, OtherText}
    \cup {Doc("master", vs, NoUrl) :
            vs \in UNION {[1 .. n -> Variants] : n \in 0 .. MaxVariants}}
    \cup {Doc("media", <<>>, ku) : ku \in {NoUrl} \cup Urls}
\* manifests without attributes, keys and alternatives
PlainResponses ==
  {Unreachable, OtherText, Doc("media", <<>>, NoUrl),
   Doc("master", <<>>, NoUrl)}
    \cup {Doc("master", <<[attrs |-> <<>>, uri |-> u]>>, NoUrl) : u \in Urls}
\* what a key request answers with: the key, or some other body
KeyResponses == {"unreachable", "key", "other"}

\* line.match(/BANDWIDTH=(\d+)/): the regular expression is not anchored,
\* it matches inside AVERAGE-BANDWIDTH=... as well; the first match counts
MatchesBandwidth(n) == n \in {"BANDWIDTH", "AVERAGE-BANDWIDTH"}
bandwidthMatch(attrs) ==
  LET hits == {k \in 1 .. Len(attrs) : MatchesBandwidth(attrs[k].name)}
  IN  IF hits = {} THEN 0
      ELSE attrs[CHOOSE k \in hits : \A j \in hits : k <= j].value

\* playlists.push(...) for every tag followed by a url line; sort by
\* (b.bandwidth || 0) - (a.bandwidth || 0), which is stable; playlists[0].url
extractSubPlaylistUrl(m3u8Content) ==
  LET vs == m3u8Content.variants
      playlists == {k \in 1 .. Len(vs) : vs[k].uri # NoUrl}
      first == CHOOSE k \in playlists :
                 \A j \in playlists :
                   \/ bandwidthMatch(vs[k].attrs) > bandwidthMatch(vs[j].attrs)
                   \/ /\ bandwidthMatch(vs[k].attrs) = bandwidthMatch(vs[j].attrs)
                      /\ k <= j
  IN  IF playlists = {} THEN NoUrl ELSE vs[first].uri

\* the M3U8Task parseM3U8 returns: entry is the url it was called with,
\* url the media playlist it was built from
Task(e, u, ku, k) == [entry |-> e, url |-> u, keyUri |-> ku, key |-> k]
NoTask == Task(NoUrl, NoUrl, NoUrl, "")
NoAdd == [url |-> NoUrl, parsedTask |-> NoTask]

\* no parseM3U8 call in progress
ParseIdle ==
  /\ rpc = "idle" /\ entryUrl = NoUrl /\ rurl = NoUrl /\ depth = 0
  /\ m3u8Str = NoDoc
  /\ fetchCount = 0 /\ keyFetches = 0 /\ presult = "none"

\* the modal before it is first opened
ModalClosed ==
  /\ isOpen = FALSE /\ editableUrl = NoUrl /\ task = NoTask
  /\ isLoading = FALSE /\ added = NoAdd

\* the segment viewer before it is first shown
NoSeg == 0 - 1
ViewerClosed ==
  /\ rw = [w \in Workers |-> NoSeg] /\ single = {} /\ retryQueue = <<>>
  /\ retryingSegments = {} /\ clicks = 0
  /\ viewing = FALSE /\ mergePc = "idle" /\ merges = 0

\* no media manifest has been walked
NoMedia == [tsUrlList |-> <<>>, finishList |-> <<>>, segmentDurations |-> <<>>,
            durationSecond |-> 0 - 1, startSegment |-> 0, endSegment |-> 0]
WalkIdle == lines = <<>> /\ mediaTask = NoMedia

\* first session on a task
Fresh ==
  TaskFresh /\ SessionFresh /\ ParseIdle /\ ModalClosed /\ ViewerClosed
    /\ WalkIdle

Init ==
  /\ Options
  /\ signal \in BOOLEAN
  /\ pauseResumeController \in BOOLEAN
  /\ completeStreamRef \in (IF signal THEN BOOLEAN ELSE {FALSE})
  /\ Covered
  /\ Fresh

\* a caller that passes no signal, no controller and no completeStreamRef
InitUnattended ==
  /\ Options
  /\ signal = FALSE
  /\ pauseResumeController = FALSE
  /\ completeStreamRef = FALSE
  /\ Fresh

\* ---- promise chain behind writeLock ----
\* promise 0 is Promise.resolve(); promise k (k >= 1) is the k-th pass
Settled(p) == p <= chainDone \/ chainErr # "none"
Rejected(p) == p > chainDone /\ chainErr # "none"

\* variant: waitIfPaused suspends whether or not the controller is paused
ParkUnconditional(p) == blocked \cup {p}
\* PauseResumeController.waitIfPaused: the caller waits on pausePromise
Park(p) == IF isPaused /\ pausePromise THEN blocked \cup {p} ELSE blocked

CheckpointPcs == {"pq_wait", "ds_wait1", "ds_wait2", "ds_wait3", "ds_wait4",
                  "ds_wait5"}
FlushPcs == {"fl_await1", "fl_await2", "flx_await1", "flx_await2"}

WorkerReady(w) ==
  \/ wpc[w] \in CheckpointPcs /\ w \notin blocked
  \/ wpc[w] \in FlushPcs /\ Settled(wawait[w])

PassReady ==
  \/ passPc = "idle" /\ chainDone < chainLen /\ chainErr = "none"
  \/ passPc = "check" /\ PassId \notin blocked

AllExited == \A w \in Launched : wpc[w] = "exit"

MainReady ==
  \/ mpc = "await_all" /\ (firstReject # "none" \/ AllExited)
  \/ mpc \in {"fl_await1", "fl_await2"} /\ Settled(mawait)
  \/ mpc = "closing" /\ wstate \in {"closed", "errored", "erroring"}

FinReady ==
  \/ fpc \in {"fl_await1", "fl_await2"} /\ Settled(fawait)
  \/ fpc = "closing" /\ wstate \in {"closed", "errored", "erroring"}

\* a microtask is runnable: no task of the event loop can start
Busy == (\E w \in Workers : WorkerReady(w)) \/ PassReady \/ MainReady \/ FinReady

\* the run is still executing code of downloadM3U8Video
RunActive ==
  \/ mpc \notin {"done", "error", "returned"}
  \/ \E w \in Launched : wpc[w] \notin {"exit", "rejected"}

\* ---- processQueue / downloadSegment ----
FirstOf(e) == IF firstReject = "none" THEN e ELSE firstReject

\* the worker's promise rejects with e
Reject(w, e) ==
  /\ wpc' = [wpc EXCEPT ![w] = "rejected"]
  /\ werr' = [werr EXCEPT ![w] = e]
  /\ firstReject' = FirstOf(e)
  /\ blocked' = blocked

\* head of the while loop of processQueue, reached with queue q
LoopHead(w, q) ==
  IF q # <<>>
  THEN IF aborted
       THEN Reject(w, "cancel")
       ELSE /\ wpc' = [wpc EXCEPT ![w] = "pq_wait"]
            /\ blocked' = Park(w)
            /\ UNCHANGED <<werr, firstReject>>
  ELSE /\ wpc' = [wpc EXCEPT ![w] = "exit"]
       /\ UNCHANGED <<werr, firstReject, blocked>>

\* entry of downloadSegment(index, retryCount)
EnterSegment(w) ==
  IF aborted
  THEN Reject(w, "cancel")
  ELSE /\ wpc' = [wpc EXCEPT ![w] = "ds_wait1"]
       /\ blocked' = Park(w)
       /\ UNCHANGED <<werr, firstReject>>

\* variant: one retry more than the budget
CanRetryOnceMore(w) == wretry[w] <= maxRetries
\* if (retryCount < maxRetries)
CanRetry(w) == wretry[w] < maxRetries

\* variant: the catch block rethrows once the budget is spent
ProceedRethrow(w) == Reject(w, "fetch")
\* the catch block returns normally once the failure is recorded, so the
\* while loop of processQueue goes on
Proceed(w) == LoopHead(w, downloadQueue)

\* variant: the payload of the segment is not kept
SetSegmentDropped(i) == downloadedSegments
\* task.downloadedSegments.set(index, segmentData)
SetSegment(i) == [downloadedSegments EXCEPT ![i] = SegmentData(i)]

\* variant: the skip marker is inserted whenever streaming was requested
MarksSkippedWithoutWriter == streamMode # "disabled"
\* if (streamMode !== 'disabled' && writer)
MarksSkipped == streamMode # "disabled" /\ writer

\* catch block of downloadSegment; sets wpc, werr, firstReject, blocked,
\* errorNum, finishList, pendingWrites, wawait, lastEvent
Catch(w, e) ==
  IF e = "write"
  THEN /\ Reject(w, "write")
       /\ UNCHANGED <<errorNum, finishList, pendingWrites, wawait, lastEvent>>
  ELSE IF CanRetry(w)
  THEN /\ lastEvent' = ProgressEvent(completedCount,
                                     Percentage(completedCount), "downloading")
       /\ wpc' = [wpc EXCEPT ![w] = "retry_delay"]
       /\ UNCHANGED <<werr, firstReject, blocked, errorNum, finishList,
                      pendingWrites, wawait>>
  ELSE /\ errorNum' = errorNum + 1
       /\ finishList' = [finishList EXCEPT ![widx[w]] =
                           [status |-> "error", retryCount |-> wretry[w]]]
       /\ IF MarksSkipped
          THEN /\ pendingWrites' = [pendingWrites EXCEPT ![widx[w]] = failed]
               /\ wpc' = [wpc EXCEPT ![w] = "flx_await1"]
               /\ wawait' = [wawait EXCEPT ![w] = chainLen]
               /\ UNCHANGED <<werr, firstReject, blocked, lastEvent>>
          ELSE /\ lastEvent' = ProgressEvent(completedCount,
                                  Percentage(completedCount), "downloading")
               /\ Proceed(w)
               /\ UNCHANGED <<pendingWrites, wawait>>

\* everything a worker step never touches
WorkerFrame ==
  UNCHANGED <<params, chainDone, chainErr, passPc, mainVars, finVars,
              aborted, pauseVars, streamVars, muxVars, doneCount,
              lateWrite, rejectedWrite, nextWriteIndex, ctrlObs, uiVars>>

\* variant: the head is read but stays in the queue
ShiftedPeek(q) == q
\* the queue after downloadQueue.shift()
Shifted(q) == Tail(q)

\* processQueue: const index = downloadQueue.shift(); await downloadSegment
WShift(w) ==
  /\ wpc[w] = "pq_wait" /\ w \notin blocked
  /\ IF downloadQueue = <<>>
     THEN /\ LoopHead(w, downloadQueue)
          /\ UNCHANGED <<downloadQueue, widx, wretry, taken>>
     ELSE /\ downloadQueue' = Shifted(downloadQueue)
          /\ widx' = [widx EXCEPT ![w] = Head(downloadQueue)]
          /\ wretry' = [wretry EXCEPT ![w] = 0]
          /\ taken' = [taken EXCEPT ![Head(downloadQueue)] = @ + 1]
          /\ EnterSegment(w)
  /\ UNCHANGED <<taskVars, pendingWrites, completedCount, chainLen, wawait,
                 lastEvent, attempts>>
  /\ WorkerFrame

\* mark the segment downloading, record retryCount
DSMark(w) ==
  /\ wpc[w] = "ds_wait1" /\ w \notin blocked
  /\ finishList' = [finishList EXCEPT ![widx[w]] =
                      [status |-> "downloading", retryCount |-> wretry[w]]]
  /\ wpc' = [wpc EXCEPT ![w] = "ds_wait2"]
  /\ blocked' = Park(w)
  /\ UNCHANGED <<werr, firstReject, widx, wretry, wawait, finishNum, errorNum,
                 downloadedSegments, downloadQueue, pendingWrites,
                 completedCount, chainLen, lastEvent, taken, attempts>>
  /\ WorkerFrame

\* start downloadTsSegment(url, signal)
DSFetch(w) ==
  /\ wpc[w] = "ds_wait2" /\ w \notin blocked
  /\ IF aborted
     THEN Catch(w, "cancel") /\ UNCHANGED attempts
     ELSE /\ wpc' = [wpc EXCEPT ![w] = "fetching"]
          /\ attempts' = [attempts EXCEPT ![widx[w]] = @ + 1]
          /\ UNCHANGED <<werr, firstReject, blocked, errorNum, finishList,
                         pendingWrites, wawait, lastEvent>>
  /\ UNCHANGED <<widx, wretry, finishNum, downloadedSegments, downloadQueue,
                 completedCount, chainLen, taken>>
  /\ WorkerFrame

\* the fetch returns the bytes of the segment
FetchOk(w) ==
  /\ ~Busy
  /\ wpc[w] = "fetching" /\ ~aborted
  /\ wpc' = [wpc EXCEPT ![w] = "ds_wait3"]
  /\ blocked' = Park(w)
  /\ UNCHANGED <<werr, firstReject, widx, wretry, wawait, taskVars,
                 downloadQueue, pendingWrites, completedCount, chainLen,
                 lastEvent, taken, attempts>>
  /\ WorkerFrame

\* the fetch rejects: network error, bad status, or the signal aborted it
FetchFail(w) ==
  /\ ~Busy
  /\ wpc[w] = "fetching"
  /\ Catch(w, "fetch")
  /\ UNCHANGED <<widx, wretry, finishNum, downloadedSegments, downloadQueue,
                 completedCount, chainLen, taken, attempts>>
  /\ WorkerFrame

\* after the fetch: checkpoint, abort check, aesDecrypt
DSDecrypt(w) ==
  /\ wpc[w] = "ds_wait3" /\ w \notin blocked
  /\ IF aborted
     THEN Catch(w, "cancel")
     ELSE /\ wpc' = [wpc EXCEPT ![w] = "ds_wait4"]
          /\ blocked' = Park(w)
          /\ UNCHANGED <<werr, firstReject, errorNum, finishList,
                         pendingWrites, wawait, lastEvent>>
  /\ UNCHANGED <<widx, wretry, finishNum, downloadedSegments, downloadQueue,
                 completedCount, chainLen, taken, attempts>>
  /\ WorkerFrame

\* hand the payload to the output path
DSStore(w) ==
  /\ wpc[w] = "ds_wait4" /\ w \notin blocked
  /\ IF aborted
     THEN Catch(w, "cancel") /\ UNCHANGED downloadedSegments
     ELSE IF writer
     THEN /\ pendingWrites' = [pendingWrites EXCEPT ![widx[w]] =
                                  SegmentData(widx[w])]
          /\ wpc' = [wpc EXCEPT ![w] = "fl_await1"]
          /\ wawait' = [wawait EXCEPT ![w] = chainLen]
          /\ UNCHANGED <<werr, firstReject, blocked, errorNum, finishList,
                         lastEvent, downloadedSegments>>
     ELSE /\ downloadedSegments' = SetSegment(widx[w])
          /\ wpc' = [wpc EXCEPT ![w] = "ds_wait5"]
          /\ blocked' = Park(w)
          /\ UNCHANGED <<werr, firstReject, errorNum, finishList,
                         pendingWrites, wawait, lastEvent>>
  /\ UNCHANGED <<widx, wretry, finishNum, downloadQueue, completedCount,
                 chainLen, taken, attempts>>
  /\ WorkerFrame

\* flushPendingWrites, first await: await writeLock
WFlushLock(w) ==
  /\ wpc[w] = "fl_await1" /\ Settled(wawait[w])
  /\ IF Rejected(wawait[w])
     THEN Catch(w, chainErr) /\ UNCHANGED chainLen
     ELSE /\ chainLen' = chainLen + 1
          /\ wawait' = [wawait EXCEPT ![w] = chainLen + 1]
          /\ wpc' = [wpc EXCEPT ![w] = "fl_await2"]
          /\ UNCHANGED <<werr, firstReject, blocked, errorNum, finishList,
                         pendingWrites, lastEvent>>
  /\ UNCHANGED <<widx, wretry, finishNum, downloadedSegments, downloadQueue,
                 completedCount, taken, attempts>>
  /\ WorkerFrame

\* flushPendingWrites, second await: the pass this call appended
WFlushDone(w) ==
  /\ wpc[w] = "fl_await2" /\ Settled(wawait[w])
  /\ IF Rejected(wawait[w])
     THEN Catch(w, chainErr)
     ELSE /\ wpc' = [wpc EXCEPT ![w] = "ds_wait5"]
          /\ blocked' = Park(w)
          /\ UNCHANGED <<werr, firstReject, errorNum, finishList,
                         pendingWrites, wawait, lastEvent>>
  /\ UNCHANGED <<widx, wretry, finishNum, downloadedSegments, downloadQueue,
                 completedCount, chainLen, taken, attempts>>
  /\ WorkerFrame

\* mark the segment success, count it, report progress
DSSuccess(w) ==
  /\ wpc[w] = "ds_wait5" /\ w \notin blocked
  /\ IF aborted
     THEN Catch(w, "cancel") /\ UNCHANGED <<completedCount, finishNum>>
     ELSE /\ finishList' = [finishList EXCEPT ![widx[w]].status = "success"]
          /\ completedCount' = completedCount + 1
          /\ finishNum' = finishNum + 1
          /\ lastEvent' = ProgressEvent(completedCount + 1,
                             Percentage(completedCount + 1), "downloading")
          /\ LoopHead(w, downloadQueue)
          /\ UNCHANGED <<errorNum, pendingWrites, wawait>>
  /\ UNCHANGED <<widx, wretry, downloadedSegments, downloadQueue, chainLen,
                 taken, attempts>>
  /\ WorkerFrame

\* the retry delay elapsed: return downloadSegment(index, retryCount + 1)
RetryTimer(w) ==
  /\ ~Busy
  /\ wpc[w] = "retry_delay"
  /\ wretry' = [wretry EXCEPT ![w] = @ + 1]
  /\ EnterSegment(w)
  /\ UNCHANGED <<widx, wawait, taskVars, downloadQueue, pendingWrites,
                 completedCount, chainLen, lastEvent, taken, attempts>>
  /\ WorkerFrame

\* flushPendingWrites called from the catch block (failure marker)
WFailFlushLock(w) ==
  /\ wpc[w] = "flx_await1" /\ Settled(wawait[w])
  /\ IF Rejected(wawait[w])
     THEN Reject(w, chainErr) /\ UNCHANGED <<chainLen, wawait>>
     ELSE /\ chainLen' = chainLen + 1
          /\ wawait' = [wawait EXCEPT ![w] = chainLen + 1]
          /\ wpc' = [wpc EXCEPT ![w] = "flx_await2"]
          /\ UNCHANGED <<werr, firstReject, blocked>>
  /\ UNCHANGED <<widx, wretry, taskVars, downloadQueue, pendingWrites,
                 completedCount, lastEvent, taken, attempts>>
  /\ WorkerFrame

WFailFlushDone(w) ==
  /\ wpc[w] = "flx_await2" /\ Settled(wawait[w])
  /\ IF Rejected(wawait[w])
     THEN Reject(w, chainErr) /\ UNCHANGED lastEvent
     ELSE /\ lastEvent' = ProgressEvent(completedCount,
                             Percentage(completedCount), "downloading")
          /\ Proceed(w)
  /\ UNCHANGED <<widx, wretry, wawait, taskVars, downloadQueue, pendingWrites,
                 completedCount, chainLen, taken, attempts>>
  /\ WorkerFrame

\* ---- WritableStream behind the writer ----
Entry(c, i, st) == [chunk |-> c, idx |-> i, stage |-> st]

\* streamingTransmuxer is created iff a writer exists and task.type is MP4
streamingTransmuxer == writer /\ taskType = "MP4"

\* ---- flushPendingWrites: one pass of the chain ----
\* while (pendingWrites.has(nextWriteIndex)) { await waitIfPaused(); ...
LoopTop(nxt, pw) ==
  IF nxt \in Segs /\ pw[nxt] # NoEntry
  THEN /\ passPc' = "check"
       /\ blocked' = Park(PassId)
       /\ chainDone' = chainDone
  ELSE /\ passPc' = "idle"
       /\ chainDone' = chainDone + 1
       /\ blocked' = blocked

\* pendingWrites.delete(nextWriteIndex); nextWriteIndex++; next iteration
Advance ==
  /\ pendingWrites' = [pendingWrites EXCEPT ![nextWriteIndex] = NoEntry]
  /\ nextWriteIndex' = nextWriteIndex + 1
  /\ LoopTop(nextWriteIndex + 1,
             [pendingWrites EXCEPT ![nextWriteIndex] = NoEntry])

PassFrame ==
  UNCHANGED <<params, taskVars, downloadQueue, completedCount, chainLen,
              workerVars, mainVars, finVars, aborted, pauseVars, sunk,
              closeCount, abortCount, doneCount, lastEvent, taken, attempts,
              rejectedWrite, ctrlObs, uiVars>>

\* the callback given to writeLock.then starts
PassStart ==
  /\ passPc = "idle" /\ chainDone < chainLen /\ chainErr = "none"
  /\ LoopTop(nextWriteIndex, pendingWrites)
  /\ UNCHANGED <<pendingWrites, nextWriteIndex, chainErr, wstate, wq,
                 muxVars, lateWrite>>
  /\ PassFrame

\* body of the loop after the pause checkpoint, up to the awaited write
PassCheck ==
  /\ passPc = "check" /\ PassId \notin blocked
  /\ IF aborted
     THEN /\ chainErr' = "cancel"
          /\ passPc' = "idle"
          /\ UNCHANGED <<pendingWrites, nextWriteIndex, chainDone, blocked,
                         wstate, wq, muxVars, lateWrite>>
     ELSE IF pendingWrites[nextWriteIndex] = failed
     THEN /\ Advance
          /\ UNCHANGED <<chainErr, wstate, wq, muxVars, lateWrite>>
     ELSE IF ~streamingTransmuxer
     THEN \* await writer.write(new Uint8Array(data))
          /\ IF wstate = "writable"
             THEN /\ wq' = Append(wq, Entry(pendingWrites[nextWriteIndex],
                                            nextWriteIndex, "direct"))
                  /\ passPc' = "writing"
                  /\ chainErr' = chainErr
             ELSE /\ chainErr' = "write"
                  /\ passPc' = "idle"
                  /\ wq' = wq
          /\ lateWrite' = (lateWrite \/ (aborted /\ wstate = "writable"))
          /\ UNCHANGED <<pendingWrites, nextWriteIndex, chainDone, blocked,
                         wstate, muxVars>>
     ELSE \* await streamingTransmuxer.pushAndTransmux(...)
          IF writeError
          THEN /\ chainErr' = "write"
               /\ passPc' = "idle"
               /\ UNCHANGED <<pendingWrites, nextWriteIndex, chainDone,
                              blocked, wstate, wq, muxVars, lateWrite>>
          ELSE \* push + flush emit 'data'; the handler starts its first write
               /\ IF wstate = "writable"
                  THEN /\ wq' = Append(wq,
                            IF isFirstSegment
                            THEN Entry(InitSegment, nextWriteIndex, "init")
                            ELSE Entry(Mp4Data(nextWriteIndex),
                                       nextWriteIndex, "data"))
                       /\ writeError' = writeError
                  ELSE /\ wq' = wq
                       /\ writeError' = TRUE
               /\ passPc' = "timer"
               /\ lateWrite' = (lateWrite \/ (aborted /\ wstate = "writable"))
               /\ UNCHANGED <<pendingWrites, nextWriteIndex, chainDone,
                              chainErr, blocked, wstate, isFirstSegment>>
  /\ PassFrame

\* pushAndTransmux: the setTimeout(0) elapsed, writeError is checked again
PassTimer ==
  /\ ~Busy
  /\ passPc = "timer"
  /\ IF writeError
     THEN /\ chainErr' = "write"
          /\ passPc' = "idle"
          /\ UNCHANGED <<pendingWrites, nextWriteIndex, chainDone, blocked>>
     ELSE Advance /\ chainErr' = chainErr
  /\ UNCHANGED <<wstate, wq, muxVars, lateWrite>>
  /\ PassFrame

\* state of the stream once the write in flight has settled
AfterInFlight == IF wstate = "erroring" THEN "errored" ELSE wstate

\* the destination accepts the chunk at the head of the stream's queue
SinkAccept ==
  /\ ~Busy
  /\ wq # <<>> /\ wstate \in {"writable", "closing", "erroring"}
  /\ sunk' = Append(sunk, Head(wq).chunk)
  /\ wstate' = AfterInFlight
  /\ IF Head(wq).stage = "direct"
     THEN \* the pass resumes after await writer.write
          /\ wq' = Tail(wq)
          /\ Advance
          /\ UNCHANGED <<chainErr, muxVars, lateWrite>>
     ELSE IF Head(wq).stage = "init"
     THEN \* the data handler resumes: isFirstSegment = false; write the data
          /\ isFirstSegment' = FALSE
          /\ IF wstate = "writable"
             THEN /\ wq' = Append(Tail(wq), Entry(Mp4Data(Head(wq).idx),
                                                  Head(wq).idx, "data"))
                  /\ writeError' = writeError
             ELSE /\ wq' = Tail(wq)
                  /\ writeError' = TRUE
          /\ lateWrite' = (lateWrite \/ (aborted /\ wstate = "writable"))
          /\ UNCHANGED <<pendingWrites, nextWriteIndex, chainDone, chainErr,
                         passPc, blocked>>
     ELSE /\ wq' = Tail(wq)
          /\ UNCHANGED <<pendingWrites, nextWriteIndex, chainDone, chainErr,
                         passPc, blocked, muxVars, lateWrite>>
  /\ UNCHANGED <<params, taskVars, downloadQueue, completedCount, chainLen,
                 workerVars, mainVars, finVars, aborted, pauseVars,
                 closeCount, abortCount, doneCount, lastEvent, taken, attempts,
                 rejectedWrite, ctrlObs, uiVars>>

\* every write still queued rejects: the awaiting pass, the data handlers
RejectQueued(q) ==
  /\ IF \E k \in 1 .. Len(q) : q[k].stage = "direct"
     THEN chainErr' = "write" /\ passPc' = "idle"
     ELSE UNCHANGED <<chainErr, passPc>>
  /\ writeError' = (writeError \/ \E k \in 1 .. Len(q) : q[k].stage # "direct")

\* the destination rejects the chunk at the head: the stream is errored
SinkReject ==
  /\ ~Busy
  /\ wq # <<>> /\ wstate \in {"writable", "closing", "erroring"}
  /\ wstate' = "errored"
  /\ wq' = <<>>
  /\ rejectedWrite' = TRUE
  /\ RejectQueued(wq)
  /\ UNCHANGED <<params, taskVars, downloadQueue, pendingWrites,
                 nextWriteIndex, completedCount, chainLen, chainDone,
                 workerVars, mainVars, finVars, aborted, pauseVars, blocked,
                 sunk, closeCount, abortCount, isFirstSegment, doneCount,
                 lastEvent, taken, attempts, lateWrite, ctrlObs, uiVars>>

\* the queue drained after close(): the destination is closed
SinkClose ==
  /\ ~Busy
  /\ wstate = "closing" /\ wq = <<>>
  /\ wstate' = "closed"
  /\ closeCount' = closeCount + 1
  /\ UNCHANGED <<params, taskVars, downloadQueue, pendingWrites,
                 nextWriteIndex, completedCount, chainVars, workerVars,
                 mainVars, finVars, aborted, pauseVars, blocked, wq, sunk,
                 abortCount, muxVars, doneCount, lastEvent, obsVars, ctrlObs, uiVars>>

\* the destination fails to close
SinkCloseFail ==
  /\ ~Busy
  /\ wstate = "closing" /\ wq = <<>>
  /\ wstate' = "errored"
  /\ UNCHANGED <<params, taskVars, downloadQueue, pendingWrites,
                 nextWriteIndex, completedCount, chainVars, workerVars,
                 mainVars, finVars, aborted, pauseVars, blocked, wq, sunk,
                 closeCount, abortCount, muxVars, doneCount, lastEvent,
                 obsVars, ctrlObs, uiVars>>

\* ---- downloadM3U8Video after the workers are launched ----
\* Math.round((completedCount / totalSegments) * 100)
RoundPercentage(cnt) == (cnt * 200 + totalSegments) \div (2 * totalSegments)

RECURSIVE Collect(_, _)
\* for (i = startSegment - 1; i < endSegment; i++) if (segment) push
Collect(lo, hi) ==
  IF lo > hi THEN <<>>
  ELSE (IF downloadedSegments[lo] # NoEntry
        THEN <<downloadedSegments[lo]>> ELSE <<>>) \o Collect(lo + 1, hi)

\* new Blob(segments): the chunks in the order given
mergeSegments(segments) == segments

\* one Transmuxer, every segment pushed, one flush: init segment + data
transmuxTSToMP4(segments) ==
  <<InitSegment>> \o [k \in 1 .. Len(segments) |-> segments[k] + 10]

\* variant: the statuses of the range are not inspected before merging
hasFailedSegmentsIgnored == FALSE
\* finishList.slice(startSegment - 1, endSegment).some(status === 'error')
hasFailedSegments == \E i \in Range : finishList[i].status = "error"

\* writer.abort(): queued writes reject, the write in flight may still land
WriterAbort ==
  IF wstate \in {"writable", "closing"}
  THEN /\ abortCount' = abortCount + 1
       /\ wstate' = IF wq # <<>> THEN "erroring" ELSE "errored"
       /\ wq' = IF wq # <<>> THEN <<Head(wq)>> ELSE <<>>
       /\ RejectQueued(IF wq # <<>> THEN Tail(wq) ELSE <<>>)
  ELSE UNCHANGED <<abortCount, wstate, wq, chainErr, passPc, writeError>>

\* outer catch of downloadM3U8Video: abort the writer, rethrow
MainFail(e) ==
  /\ mpc' = "error"
  /\ merr' = e
  /\ IF writer THEN WriterAbort
     ELSE UNCHANGED <<abortCount, wstate, wq, chainErr, passPc, writeError>>

MainFrame ==
  UNCHANGED <<params, taskVars, downloadQueue, pendingWrites, nextWriteIndex,
              completedCount, chainDone, workerVars, finVars, aborted,
              pauseVars, blocked, sunk, closeCount, isFirstSegment, obsVars,
              ctrlObs, uiVars>>

\* await Promise.all(workers) settles
MainAll ==
  /\ mpc = "await_all" /\ (firstReject # "none" \/ AllExited)
  /\ IF firstReject # "none"
     THEN /\ MainFail(firstReject)
          /\ UNCHANGED <<mawait, artifact, doneCount, lastEvent>>
     ELSE IF writer
     THEN /\ mpc' = "fl_await1"
          /\ mawait' = chainLen
          /\ UNCHANGED <<merr, artifact, doneCount, lastEvent, abortCount,
                         wstate, wq, chainErr, passPc, writeError>>
     ELSE IF \A i \in Segs : downloadedSegments[i] = NoEntry
     THEN /\ mpc' = "error"
          /\ merr' = "nosegments"
          /\ UNCHANGED <<mawait, artifact, doneCount, lastEvent, abortCount,
                         wstate, wq, chainErr, passPc, writeError>>
     ELSE IF hasFailedSegments
     THEN /\ mpc' = "returned"
          /\ lastEvent' = ProgressEvent(completedCount,
                             RoundPercentage(completedCount), "downloading")
          /\ UNCHANGED <<mawait, merr, artifact, doneCount, abortCount,
                         wstate, wq, chainErr, passPc, writeError>>
     ELSE /\ mpc' = "done"
          /\ artifact' = IF taskType = "MP4"
                          THEN transmuxTSToMP4(Collect(startSegment - 1,
                                                       endSegment - 1))
                          ELSE mergeSegments(Collect(startSegment - 1,
                                                     endSegment - 1))
          /\ doneCount' = doneCount + 1
          /\ lastEvent' = ProgressEvent(
                             Len(Collect(startSegment - 1, endSegment - 1)),
                             100, "done")
          /\ UNCHANGED <<mawait, merr, abortCount, wstate, wq, chainErr,
                         passPc, writeError>>
  /\ chainLen' = chainLen
  /\ MainFrame

\* final flushPendingWrites, first await
MainFlushLock ==
  /\ mpc = "fl_await1" /\ Settled(mawait)
  /\ IF Rejected(mawait)
     THEN MainFail(chainErr) /\ UNCHANGED <<mawait, chainLen>>
     ELSE /\ chainLen' = chainLen + 1
          /\ mawait' = chainLen + 1
          /\ mpc' = "fl_await2"
          /\ UNCHANGED <<merr, abortCount, wstate, wq, chainErr, passPc,
                         writeError>>
  /\ UNCHANGED <<artifact, doneCount, lastEvent>>
  /\ MainFrame

\* final flushPendingWrites returned: streamingTransmuxer.finish() or
\* writer.close()
MainFlushDone ==
  /\ mpc = "fl_await2" /\ Settled(mawait)
  /\ IF Rejected(mawait)
     THEN MainFail(chainErr) /\ UNCHANGED <<doneCount, lastEvent>>
     ELSE IF wstate = "writable"
     THEN /\ wstate' = "closing"
          /\ mpc' = "closing"
          /\ UNCHANGED <<merr, abortCount, wq, chainErr, passPc, writeError,
                         doneCount, lastEvent>>
     ELSE IF streamingTransmuxer
     THEN \* finish() swallows the rejection of close()
          /\ mpc' = "done"
          /\ doneCount' = doneCount + 1
          /\ lastEvent' = ProgressEvent(completedCount, 100, "done")
          /\ UNCHANGED <<merr, abortCount, wstate, wq, chainErr, passPc,
                         writeError>>
     ELSE MainFail("close") /\ UNCHANGED <<doneCount, lastEvent>>
  /\ UNCHANGED <<mawait, artifact, chainLen>>
  /\ MainFrame

\* the close() awaited by the run settled
MainClosed ==
  /\ mpc = "closing" /\ wstate \in {"closed", "errored", "erroring"}
  /\ IF wstate = "closed" \/ streamingTransmuxer
     THEN /\ mpc' = "done"
          /\ doneCount' = doneCount + 1
          /\ lastEvent' = ProgressEvent(completedCount, 100, "done")
          /\ UNCHANGED <<merr, abortCount, wstate, wq, chainErr, passPc,
                         writeError>>
     ELSE MainFail("close") /\ UNCHANGED <<doneCount, lastEvent>>
  /\ UNCHANGED <<mawait, artifact, chainLen>>
  /\ MainFrame

\* ---- completeStreamRef.current and the early-finalize handler ----
FinFrame ==
  UNCHANGED <<params, taskVars, downloadQueue, pendingWrites, nextWriteIndex,
              completedCount, chainDone, chainErr, passPc, workerVars,
              mainVars, pauseVars, blocked, wq, sunk, closeCount, abortCount,
              muxVars, obsVars, ctrlObs, uiVars>>

\* the user confirms 'save now': abortController.abort(), then a 100 ms wait
EarlyFinalize ==
  /\ ~Busy
  /\ completeStreamRef /\ streamMode # "disabled" /\ writer
  /\ fpc = "idle" /\ RunActive
  /\ aborted' = TRUE
  /\ fpc' = "ef_timer"
  /\ UNCHANGED <<fawait, chainLen, wstate, doneCount, lastEvent>>
  /\ FinFrame

\* the wait elapsed: completeStreamRef.current() calls flushPendingWrites
FinCall ==
  /\ ~Busy
  /\ fpc = "ef_timer"
  /\ fpc' = "fl_await1"
  /\ fawait' = chainLen
  /\ UNCHANGED <<aborted, chainLen, wstate, doneCount, lastEvent>>
  /\ FinFrame

FinFlushLock ==
  /\ fpc = "fl_await1" /\ Settled(fawait)
  /\ IF Rejected(fawait)
     THEN fpc' = "failed" /\ UNCHANGED <<fawait, chainLen>>
     ELSE /\ chainLen' = chainLen + 1
          /\ fawait' = chainLen + 1
          /\ fpc' = "fl_await2"
  /\ UNCHANGED <<aborted, wstate, doneCount, lastEvent>>
  /\ FinFrame

FinFlushDone ==
  /\ fpc = "fl_await2" /\ Settled(fawait)
  /\ IF Rejected(fawait)
     THEN fpc' = "failed" /\ UNCHANGED <<wstate, doneCount, lastEvent>>
     ELSE IF wstate = "writable"
     THEN /\ wstate' = "closing"
          /\ fpc' = "closing"
          /\ UNCHANGED <<doneCount, lastEvent>>
     ELSE IF streamingTransmuxer
     THEN /\ fpc' = "done"
          /\ doneCount' = doneCount + 1
          /\ lastEvent' = ProgressEvent(completedCount, 100, "done")
          /\ wstate' = wstate
     ELSE fpc' = "failed" /\ UNCHANGED <<wstate, doneCount, lastEvent>>
  /\ UNCHANGED <<aborted, fawait, chainLen>>
  /\ FinFrame

FinClosed ==
  /\ fpc = "closing" /\ wstate \in {"closed", "errored", "erroring"}
  /\ IF wstate = "closed" \/ streamingTransmuxer
     THEN /\ fpc' = "done"
          /\ doneCount' = doneCount + 1
          /\ lastEvent' = ProgressEvent(completedCount, 100, "done")
     ELSE fpc' = "failed" /\ UNCHANGED <<doneCount, lastEvent>>
  /\ UNCHANGED <<aborted, fawait, chainLen, wstate>>
  /\ FinFrame

\* ---- AbortSignal and PauseResumeController, driven by the caller ----
\* variant: a call from the caller starts the progress count over
EnvFrameResetsProgress ==
  /\ completedCount' = 0
  /\ UNCHANGED <<params, taskVars, downloadQueue, pendingWrites,
                 nextWriteIndex, chainVars, workerVars, mainVars, finVars,
                 streamVars, muxVars, doneCount, lastEvent, obsVars,
                 uiVars>>
\* abort(), pause(), resume() and destroy() touch the signal and the
\* controller only
EnvFrame ==
  UNCHANGED <<params, taskVars, downloadQueue, pendingWrites, nextWriteIndex,
              completedCount, chainVars, workerVars, mainVars, finVars,
              streamVars, muxVars, doneCount, lastEvent, obsVars,
                 uiVars>>

Abort ==
  /\ ~Busy
  /\ signal /\ ~aborted /\ RunActive
  /\ aborted' = TRUE
  /\ UNCHANGED <<pauseVars, blocked, ctrlObs, uiVars>>
  /\ EnvFrame

\* variant: pause() arms a new wait-point on every call
ShouldArmAlways == TRUE
\* if (!this.isPaused)
ShouldArm == ~isPaused

\* PauseResumeController.pause(): a new promise replaces pausePromise and
\* its resolver replaces resumeResolve; callers suspended on a replaced
\* promise that was not resolved can no longer be released
PauseCall ==
  IF ShouldArm
  THEN /\ isPaused' = TRUE
       /\ pausePromise' = TRUE
       /\ resumeResolve' = TRUE
       /\ orphaned' = orphaned \cup (IF resumeResolve THEN blocked ELSE {})
       /\ blocked' = blocked
  ELSE UNCHANGED <<pauseVars, blocked, orphaned>>

\* PauseResumeController.resume()
ResumeCall ==
  IF isPaused /\ resumeResolve
  THEN /\ isPaused' = FALSE
       /\ blocked' = orphaned
       /\ resumeResolve' = FALSE
       /\ pausePromise' = FALSE
       /\ orphaned' = orphaned
  ELSE UNCHANGED <<pauseVars, blocked, orphaned>>

\* variant: destroy() drops the resolver without calling it
DestroyKeepsWaiters == blocked
\* callers still suspended after destroy(): if (this.resumeResolve)
\* this.resumeResolve()
DestroyWaiters == IF resumeResolve THEN orphaned ELSE blocked

\* PauseResumeController.destroy()
DestroyCall ==
  /\ isPaused' = FALSE
  /\ blocked' = DestroyWaiters
  /\ orphaned' = DestroyWaiters
  /\ resumeResolve' = FALSE
  /\ pausePromise' = FALSE

\* DownloadManager.pauseTask / pauseAll
pause ==
  /\ ~Busy
  /\ pauseResumeController /\ RunActive
  /\ PauseCall
  /\ UNCHANGED <<aborted, lastCall>>
  /\ EnvFrame

\* DownloadManager.resumeTask on a paused task
resume ==
  /\ ~Busy
  /\ pauseResumeController
  /\ ResumeCall
  /\ UNCHANGED <<aborted, lastCall>>
  /\ EnvFrame

\* DownloadManager.deleteTask / clearAll / beforeunload
destroy ==
  /\ ~Busy
  /\ pauseResumeController
  /\ DestroyCall
  /\ UNCHANGED <<aborted, lastCall>>
  /\ EnvFrame

Next ==
  \/ \E w \in Workers :
       \/ WShift(w) \/ DSMark(w) \/ DSFetch(w) \/ FetchOk(w) \/ FetchFail(w)
       \/ DSDecrypt(w) \/ DSStore(w) \/ WFlushLock(w) \/ WFlushDone(w)
       \/ DSSuccess(w) \/ RetryTimer(w) \/ WFailFlushLock(w)
       \/ WFailFlushDone(w)
  \/ PassStart \/ PassCheck \/ PassTimer
  \/ SinkAccept \/ SinkReject \/ SinkClose \/ SinkCloseFail
  \/ MainAll \/ MainFlushLock \/ MainFlushDone \/ MainClosed
  \/ EarlyFinalize \/ FinCall \/ FinFlushLock \/ FinFlushDone \/ FinClosed
  \/ Abort \/ pause \/ resume \/ destroy

Spec == Init /\ [][Next]_vars

\* a run whose only faults are failing fetches: the destination accepts
\* every write, nobody cancels, pauses or finalizes early
NextUnattended ==
  \/ \E w \in Workers :
       \/ WShift(w) \/ DSMark(w) \/ DSFetch(w) \/ FetchOk(w) \/ FetchFail(w)
       \/ DSDecrypt(w) \/ DSStore(w) \/ WFlushLock(w) \/ WFlushDone(w)
       \/ DSSuccess(w) \/ RetryTimer(w) \/ WFailFlushLock(w)
       \/ WFailFlushDone(w)
  \/ PassStart \/ PassCheck \/ PassTimer
  \/ SinkAccept \/ SinkClose
  \/ MainAll \/ MainFlushLock \/ MainFlushDone \/ MainClosed

\* the event loop runs every ready continuation; every fetch, timer and
\* write of the destination eventually settles
SpecUnattended ==
  InitUnattended /\ [][NextUnattended]_vars /\ WF_vars(NextUnattended)

\* ---- what the destination has received ----
IsPayload(c) == c # InitSegment
PayloadIndex(c) == IF c >= Mp4Data(0) THEN c - Mp4Data(0) ELSE c - SegmentData(0)

\* indices of the segment payloads the destination accepted, in order
SunkIndices ==
  LET p == SelectSeq(sunk, IsPayload)
  IN  [k \in 1 .. Len(p) |-> PayloadIndex(p[k])]

\* what a sequential run over the range delivers
ExpectedSink ==
  IF streamingTransmuxer
  THEN <<InitSegment>> \o
       [k \in 1 .. totalSegments |-> Mp4Data(startSegment - 2 + k)]
  ELSE [k \in 1 .. totalSegments |-> SegmentData(startSegment - 2 + k)]

\* no fetch of the range failed: one attempt per segment, all successful
NoFetchFailure ==
  \A i \in Range : attempts[i] = 1 /\ finishList[i].status = "success"

\* C1: in streaming mode the indices of the payloads written to the sink
\* are strictly increasing: none twice, none lower after a higher one.
C1_SinkOrderStrictlyIncreasing ==
  writer =>
    \A j, k \in 1 .. Len(SunkIndices) :
      j < k => SunkIndices[j] < SunkIndices[k]

\* C2: a sink write is never started while another sink write started by
\* a flush pass is still pending: the stream holds at most one unsettled
\* write at any time.
C2_NoOverlappingSinkWrites ==
  Len(wq) <= 1

\* C3: a streaming run that completes without a fetch failure has delivered
\* exactly the payloads of startSegment-1 .. endSegment-1 in index order,
\* whatever the concurrency.
C3_CompleteRunDeliversRange ==
  (writer /\ mpc = "done" /\ NoFetchFailure /\ ~aborted /\ ~rejectedWrite)
    => sunk = ExpectedSink

\* C9: once the sink has rejected a write, downloadM3U8Video never emits
\* status done.
C9_NoDoneAfterRejectedWrite ==
  rejectedWrite => doneCount = 0

\* C10: every write the sink receives was started before the cancellation
\* signal was set.
C10_NoWriteStartedAfterCancel ==
  ~lateWrite

\* what the buffered path hands to triggerDownload after a full run
ExpectedArtifact ==
  LET all == [k \in 1 .. totalSegments |-> SegmentData(startSegment - 2 + k)]
  IN  IF taskType = "MP4" THEN transmuxTSToMP4(all) ELSE mergeSegments(all)

\* C4: when some segments needed a retry and every segment of the range
\* finally succeeded, the output (sink content when streaming, merged
\* artifact when buffered) is that of the run without failures.
C4_RetryTransparent ==
  (/\ mpc = "done" /\ ~aborted /\ ~rejectedWrite
   /\ \A i \in Range : finishList[i].status = "success"
   /\ \E i \in Range : attempts[i] > 1)
    => IF writer THEN sunk = ExpectedSink ELSE artifact = ExpectedArtifact

\* the worker is inside downloadSegment for widx[w]
Holding(w) ==
  wpc[w] \in {"ds_wait1", "ds_wait2", "fetching", "ds_wait3", "ds_wait4",
              "ds_wait5", "fl_await1", "fl_await2", "flx_await1",
              "flx_await2", "retry_delay"}

InQueue(i) == \E k \in 1 .. Len(downloadQueue) : downloadQueue[k] = i

\* C5: each index of the range leaves the queue exactly once, no two
\* workers hold the same index, and every attempt on an index is made by
\* the one worker that took it.
C5_EachIndexTakenOnce ==
  /\ \A i \in Segs : taken[i] <= 1
  /\ \A i \in Range : (taken[i] = 0) <=> InQueue(i)
  /\ \A i \in Segs : attempts[i] > 0 => taken[i] = 1
  /\ \A w, v \in Launched :
       (w # v /\ Holding(w) /\ Holding(v)) => widx[w] # widx[v]

\* two workers hold different indices, one of them in a retry
C5_Witness ==
  \E w, v \in Launched :
    /\ w # v /\ wpc[w] = "fetching" /\ wpc[v] = "fetching"
    /\ wretry[w] = 1 /\ widx[w] < widx[v] /\ downloadQueue = <<>>

InFlight == {w \in Workers : wpc[w] = "fetching"}

\* C6: the number of fetches in flight never exceeds
\* min(concurrency, segments in range), retries included.
C6_FetchesBoundedByPool ==
  Cardinality(InFlight) <= Min(concurrency, totalSegments)

\* the pool is saturated while one of the fetches is a retry and segments
\* are still queued
C6_Witness ==
  /\ Cardinality(InFlight) = Min(concurrency, totalSegments)
  /\ Cardinality(InFlight) = MaxConc
  /\ \E w \in InFlight : wretry[w] > 0
  /\ downloadQueue # <<>>

\* C7: a segment is fetched at most maxRetries + 1 times, its recorded
\* retryCount never exceeds maxRetries, and it is marked failed only with
\* the budget spent.
C7_RetryBudgetRespected ==
  /\ \A w \in Workers : wretry[w] <= maxRetries
  /\ \A i \in Segs :
       /\ finishList[i].retryCount <= maxRetries
       /\ attempts[i] <= maxRetries + 1
       /\ finishList[i].status = "error" =>
            finishList[i].retryCount = maxRetries
       /\ (finishList[i].status = "error" /\ ~aborted) =>
            attempts[i] = maxRetries + 1

\* a segment failed after its retries, nobody cancelled
C7_Witness ==
  \E i \in Range :
    /\ finishList[i].status = "error" /\ maxRetries > 0
    /\ finishList[i].retryCount = maxRetries
    /\ attempts[i] = maxRetries + 1 /\ ~aborted

\* the fetch of worker w fails with the budget spent
Exhausts(w) ==
  /\ wpc[w] = "fetching" /\ ~CanRetry(w)
  /\ wpc'[w] \notin {"fetching", "ds_wait3"}

Terminated ==
  \/ mpc \in {"done", "returned"}
  \/ mpc = "error" /\ merr = "nosegments"

\* C8: exhausting the retries marks the segment failed, adds exactly one
\* to errorNum and leaves the worker running; with failing fetches as the
\* only fault every worker drains the queue and the run terminates.
C8_FailureDoesNotStopRun ==
  /\ [][\A w \in Workers : Exhausts(w) =>
          /\ finishList'[widx[w]].status = "error"
          /\ errorNum' = errorNum + 1
          /\ wpc'[w] # "rejected" /\ firstReject' = firstReject
          /\ mpc' = mpc]_vars
  /\ [](errorNum = Cardinality({i \in Range : finishList[i].status = "error"}))
  /\ <>(downloadQueue = <<>> /\ AllExited /\ Terminated)

\* the single worker lost a segment and completed a later one
C8_Witness ==
  /\ concurrency = 1 /\ maxRetries > 0 /\ Terminated
  /\ \E i, j \in Range :
       /\ i < j /\ finishList[i].status = "error"
       /\ finishList[j].status = "success"
  /\ errorNum = 1

\* ---- a run the caller may cancel and pause ----
\* the caller passes a signal and a controller, no completeStreamRef
InitCancel ==
  /\ Options
  /\ signal = TRUE
  /\ pauseResumeController = TRUE
  /\ completeStreamRef = FALSE
  /\ (streamMode # "disabled" /\ writer /\ taskType = "MP4") => concurrency = 1
  /\ Fresh

NextCancel == NextUnattended \/ Abort \/ pause \/ resume \/ destroy

\* the event loop is fair to the program; nothing is assumed about when,
\* or whether, the caller cancels, pauses, resumes or destroys
SpecCancel == InitCancel /\ [][NextCancel]_vars /\ WF_vars(NextUnattended)

\* every launched worker has returned or thrown
Stopped == \A w \in Launched : wpc[w] \in {"exit", "rejected"}

\* downloadM3U8Video has returned or thrown
RunEnded == mpc \in {"done", "error", "returned"}

\* C11: once the cancellation signal is set no worker takes another index
\* from the queue, and eventually every worker has stopped and the run has
\* ended, whatever the workers were doing when the signal was set
\* (fetching, waiting for a retry, flushing, suspended at a pause
\* checkpoint).
C11_CancelStopsRun ==
  /\ [][aborted => taken' = taken]_vars
  /\ aborted ~> (Stopped /\ RunEnded)

\* ---- runs that end with failed segments ----
Succeeded == {i \in Range : finishList[i].status = "success"}
Failed == {i \in Range : finishList[i].status = "error"}

RECURSIVE Ascending(_)
\* the elements of a set of indices in increasing order
Ascending(S) ==
  IF S = {} THEN <<>>
  ELSE LET lo == CHOOSE i \in S : \A j \in S : i <= j
       IN  <<lo>> \o Ascending(S \ {lo})

\* what the destination holds once exactly the indices of S were written
SinkOf(S) ==
  LET ord == Ascending(S)
  IN  IF streamingTransmuxer
      THEN IF S = {} THEN <<>>
           ELSE <<InitSegment>> \o [k \in 1 .. Len(ord) |-> Mp4Data(ord[k])]
      ELSE [k \in 1 .. Len(ord) |-> SegmentData(ord[k])]

\* C12: a streaming run whose queue drains with permanently failed segments
\* still finalizes: the sink holds exactly the successful indices of the
\* range in increasing order, it is closed, the terminal event has status
\* done and errorNum is the number of failed segments.
C12_StreamingSkipsFailed ==
  /\ []((writer /\ RunEnded /\ Failed # {}) =>
          /\ mpc = "done" /\ doneCount = 1 /\ lastEvent.status = "done"
          /\ sunk = SinkOf(Succeeded)
          /\ closeCount = 1 /\ wstate = "closed"
          /\ errorNum = Cardinality(Failed)
          /\ Succeeded \cup Failed = Range)
  /\ <>(writer => mpc = "done")

\* the run returned without finalizing; the last event is the waiting event
WaitsForRetry ==
  /\ mpc = "returned" /\ merr = "none"
  /\ artifact = <<>> /\ doneCount = 0
  /\ lastEvent = ProgressEvent(completedCount,
                               RoundPercentage(completedCount), "downloading")
  /\ errorNum = Cardinality(Failed)
  /\ \A i \in Segs : downloadedSegments[i] # NoEntry <=> i \in Succeeded

C14_FullRunEmitsOneDone ==
  /\ []((Succeeded = Range /\ (RunEnded \/ doneCount > 0)) =>
          /\ mpc = "done" /\ doneCount = 1
          /\ lastEvent = ProgressEvent(totalSegments, 100, "done")
          /\ IF writer
             THEN sunk = ExpectedSink /\ closeCount = 1 /\ wstate = "closed"
             ELSE artifact = ExpectedArtifact)
  /\ (Succeeded = Range) ~> (mpc = "done")

\* ---- a cancelled run that is resumed ----
MaxCarried == 1

\* segments of the range that still have status '' or 'downloading'
pendingCount ==
  Cardinality({i \in Range : finishList[i].status \in {"", "downloading"}})

\* DownloadManager.resumeTask on a task whose run was cancelled: segments of
\* the range are still pending, so startTaskDownload creates new
\* controllers and calls downloadM3U8Video on the same task.  Explored
\* while the task counters carried over are at most MaxCarried.
resumeTask ==
  /\ ~Busy
  /\ Stopped /\ mpc = "error" /\ merr = "cancel"
  /\ pendingCount > 0
  /\ finishNum + errorNum <= MaxCarried
  /\ UNCHANGED <<params, taskVars>>
  /\ downloadQueue' = RangeSeq(startSegment - 1, endSegment - 1)
  /\ pendingWrites' = [i \in Segs |-> NoEntry]
  /\ nextWriteIndex' = startSegment - 1
  /\ completedCount' = 0
  /\ chainLen' = 0 /\ chainDone' = 0 /\ chainErr' = "none"
  /\ passPc' = "idle"
  /\ wpc' = [w \in Workers |-> IF w <= PoolSize THEN "pq_wait" ELSE "unused"]
  /\ widx' = [w \in Workers |-> 0]
  /\ wretry' = [w \in Workers |-> 0]
  /\ wawait' = [w \in Workers |-> 0]
  /\ werr' = [w \in Workers |-> "none"]
  /\ firstReject' = "none"
  /\ mpc' = "await_all" /\ mawait' = 0 /\ merr' = "none" /\ artifact' = <<>>
  /\ fpc' = "idle" /\ fawait' = 0
  /\ aborted' = FALSE
  /\ isPaused' = FALSE /\ pausePromise' = FALSE /\ resumeResolve' = FALSE
  /\ blocked' = {}
  /\ wstate' = "writable" /\ wq' = <<>> /\ sunk' = <<>>
  /\ closeCount' = 0 /\ abortCount' = 0
  /\ isFirstSegment' = TRUE /\ writeError' = FALSE
  /\ doneCount' = 0
  /\ lastEvent' = ProgressEvent(0, 0, "none")
  /\ taken' = [i \in Segs |-> 0]
  /\ attempts' = [i \in Segs |-> 0]
  /\ lateWrite' = FALSE /\ rejectedWrite' = FALSE
  /\ orphaned' = {} /\ lastCall' = NoCall
  /\ UNCHANGED uiVars

\* the caller passes a signal; a cancelled task can be resumed
InitResume ==
  /\ Options
  /\ signal = TRUE
  /\ pauseResumeController = FALSE
  /\ completeStreamRef = FALSE
  /\ (streamMode # "disabled" /\ writer /\ taskType = "MP4") => concurrency = 1
  /\ Fresh

NextResume == NextUnattended \/ Abort \/ resumeTask

SpecResume == InitResume /\ [][NextResume]_vars

\* C15: over a run that is cancelled mid-flight and then resumed by a new
\* session on the same task, the set of segments with status success never
\* shrinks, and no attempt is started on a segment that has status success.
C15_SuccessNeverRefetched ==
  [][/\ Succeeded \subseteq Succeeded'
     /\ \A w \in Workers :
          (wpc[w] = "ds_wait1" /\ wpc'[w] = "ds_wait2") =>
            finishList[widx[w]].status # "success"]_vars

\* ---- early finalize ----
\* the early-finalize handler was invoked / has returned or thrown
FinInvoked == fpc # "idle"
FinEnded == fpc \in {"done", "failed"}

InSink(i) == \E k \in 1 .. Len(SunkIndices) : SunkIndices[k] = i

\* C16: early finalize invoked while a streaming run with several workers
\* is in flight leaves the sink closed exactly once (not unclosed, not
\* closed twice, not aborted instead), whatever the interleaving with the
\* workers and the run's own completion or abort path, and the sink then
\* holds every non-failed index below nextWriteIndex.
C16_EarlyFinalizeClosesOnce ==
  /\ concurrency > 1 => closeCount <= 1
  /\ (concurrency > 1 /\ FinEnded /\ RunEnded /\ Stopped /\ ~rejectedWrite) =>
       /\ closeCount = 1 /\ abortCount = 0 /\ wstate = "closed"
       /\ \A i \in Range :
            (i < nextWriteIndex /\ finishList[i].status # "error") => InSink(i)

\* a streaming run started by DownloadManager (signal, controller and
\* completeStreamRef passed) whose destination accepts every write
InitFinalize ==
  /\ Options
  /\ streamMode # "disabled" /\ writer
  /\ signal = TRUE
  /\ pauseResumeController = TRUE
  /\ completeStreamRef = TRUE
  /\ taskType = "MP4" => concurrency = 1
  /\ Fresh

\* steps the event loop takes by itself once the handler was invoked
FinStep == FinCall \/ FinFlushLock \/ FinFlushDone \/ FinClosed

NextFinalize == NextCancel \/ EarlyFinalize \/ FinStep

\* the event loop is fair to the program and to the handler's timer;
\* nothing is assumed about the user's pause, resume, cancel or finalize
SpecFinalize ==
  InitFinalize /\ [][NextFinalize]_vars /\ WF_vars(NextUnattended \/ FinStep)

\* C17: early finalize invoked during an in-flight streaming run always
\* terminates: completeStreamRef.current() eventually settles in every
\* interleaving, also when the run is paused or a flush pass is in
\* progress when it is requested.
C17_EarlyFinalizeTerminates ==
  FinInvoked ~> FinEnded

\* ---- PauseResumeController under a run that only its caller disturbs ----
\* the methods as the controller's owner calls them, with the call recorded
CallPause ==
  /\ ~Busy
  /\ RunActive
  /\ PauseCall
  /\ lastCall' = Call("pause", isPaused, Cardinality(blocked))
  /\ UNCHANGED aborted
  /\ EnvFrame

CallResume ==
  /\ ~Busy
  /\ RunActive
  /\ ResumeCall
  /\ lastCall' = Call("resume", isPaused, Cardinality(blocked))
  /\ UNCHANGED aborted
  /\ EnvFrame

CallDestroy ==
  /\ ~Busy
  /\ RunActive
  /\ DestroyCall
  /\ lastCall' = Call("destroy", isPaused, Cardinality(blocked))
  /\ UNCHANGED aborted
  /\ EnvFrame

\* a run with a controller and no signal; the transmuxer with one worker
InitController ==
  /\ Options
  /\ signal = FALSE
  /\ pauseResumeController = TRUE
  /\ completeStreamRef = FALSE
  /\ (streamMode # "disabled" /\ writer /\ taskType = "MP4") => concurrency = 1
  /\ Fresh

NextController == NextUnattended \/ CallPause \/ CallResume \/ CallDestroy

SpecController == InitController /\ [][NextController]_vars

\* C18: pause() on a paused controller and resume() on a controller that
\* is not paused change nothing: the paused flag, the armed wait-point and
\* its resolver stay as they are, and no suspended caller is released or
\* left behind on a replaced wait-point.
C18_RedundantCallsAreNoOps ==
  [][/\ (CallPause /\ isPaused) => UNCHANGED <<pauseVars, blocked, orphaned>>
     /\ (CallResume /\ ~isPaused) => UNCHANGED <<pauseVars, blocked, orphaned>>
     /\ orphaned' = {}]_vars

\* pause() was called on a paused controller with two callers suspended,
\* and they are still suspended on the armed wait-point
C18_Witness ==
  /\ lastCall = Call("pause", TRUE, 2)
  /\ isPaused /\ pausePromise /\ resumeResolve
  /\ Cardinality(blocked) = 2 /\ orphaned = {}

Callers == Workers \cup {PassId}

\* C19: resume() releases every caller suspended in waitIfPaused(), however
\* many there are, and a caller of waitIfPaused() is suspended only when
\* the controller is paused.
C19_ResumeReleasesAll ==
  [][/\ (CallResume /\ isPaused) =>
          (blocked' = {} /\ ~isPaused' /\ ~pausePromise')
     /\ \A p \in Callers : (p \in blocked' /\ p \notin blocked) => isPaused]_vars

\* resume() was called with two callers suspended and none is left
C19_Witness ==
  /\ lastCall = Call("resume", TRUE, 2)
  /\ blocked = {} /\ ~isPaused

\* C20: destroy() leaves no caller suspended and the controller not paused,
\* whatever calls preceded it, and until the controller is used again
\* waitIfPaused() suspends nobody.
C20_DestroyReleasesAll ==
  /\ [][CallDestroy =>
          (blocked' = {} /\ ~isPaused' /\ ~pausePromise' /\ ~resumeResolve')]_vars
  /\ [](lastCall.op = "destroy" => (blocked = {} /\ ~isPaused))

\* destroy() was called with two callers suspended; both went on
C20_Witness ==
  /\ lastCall = Call("destroy", TRUE, 2)
  /\ blocked = {} /\ ~isPaused
  /\ \A w \in Launched : wpc[w] \notin CheckpointPcs

\* C21: pause() and resume() change the controller only: completedCount,
\* finishNum, errorNum, the segment statuses, the queue, the payload map,
\* the reorder buffer and nextWriteIndex are untouched, and a segment is
\* fetched again only after a failed attempt, so a fetch in flight across a
\* pause keeps its result.
C21_PauseKeepsProgress ==
  /\ [][(CallPause \/ CallResume) =>
          UNCHANGED <<completedCount, finishNum, errorNum, finishList,
                      downloadQueue, downloadedSegments, pendingWrites,
                      nextWriteIndex, wpc, widx, wretry, attempts>>]_vars
  /\ [](\A w \in Launched :
          wpc[w] \in {"fetching", "ds_wait3", "ds_wait4", "ds_wait5",
                      "fl_await1", "fl_await2"} =>
            attempts[widx[w]] = wretry[w] + 1)
  /\ [](\A i \in Range : finishList[i].status = "success" =>
          attempts[i] = finishList[i].retryCount + 1)

\* resume() has just released a worker whose first fetch completed while
\* the controller was paused, with one segment already counted
C21_Witness ==
  /\ lastCall = Call("resume", TRUE, 1)
  /\ completedCount = 1 /\ finishNum = 1
  /\ \E w \in Launched :
       wpc[w] = "ds_wait3" /\ wretry[w] = 0 /\ attempts[widx[w]] = 1

\* ---- workers racing ahead of the sequencer ----
\* two workers stream the whole list with direct writes, fetches may fail
InitAhead ==
  /\ concurrency = MaxConc
  /\ maxRetries = 0
  /\ streamMode = "file-system" /\ writer = TRUE /\ taskType = "TS"
  /\ startSegment = 1 /\ endSegment = ListLen
  /\ signal = FALSE
  /\ pauseResumeController = FALSE
  /\ completeStreamRef = FALSE
  /\ Fresh

NextAhead ==
  \/ \E w \in Workers :
       \/ WShift(w) \/ DSMark(w) \/ DSFetch(w) \/ FetchOk(w) \/ FetchFail(w)
       \/ DSDecrypt(w) \/ DSStore(w) \/ WFlushLock(w) \/ WFlushDone(w)
       \/ DSSuccess(w) \/ WFailFlushLock(w) \/ WFailFlushDone(w)
  \/ PassStart \/ PassCheck \/ SinkAccept \/ SinkClose
  \/ MainAll \/ MainFlushLock \/ MainFlushDone \/ MainClosed

SpecAhead == InitAhead /\ [][NextAhead]_vars

\* C22: in a streaming run the number of downloaded payloads waiting in
\* pendingWrites never exceeds the concurrency, however many segments the
\* range has.
C22_BufferBoundedByConcurrency ==
  writer =>
    Cardinality({i \in Segs : pendingWrites[i] \notin {NoEntry, failed}})
      <= concurrency

\* ---- parseM3U8 and the AddDownloadModal ----
\* variant: no limit on the recursion
DepthUnlimited(d) == FALSE
\* if (depth > 5) throw
DepthExceeded(d) == d > MaxDepth

\* parseM3U8(u) is called and runs to its first await
ParseStart(u) ==
  /\ rpc' = "manifest" /\ entryUrl' = u /\ rurl' = u /\ depth' = 0
  /\ fetchCount' = 1 /\ keyFetches' = 0
  /\ isLoading' = TRUE
  /\ UNCHANGED <<presult, task>>

\* parseM3U8 returns t: setTask(parsedTask), finally setIsLoading(false)
ParseReturn(t) ==
  /\ rpc' = "idle" /\ presult' = "task"
  /\ task' = t /\ isLoading' = FALSE
  /\ UNCHANGED <<entryUrl, rurl, depth>>

\* parseM3U8 throws e: catch {} and finally setIsLoading(false)
ParseThrow(e) ==
  /\ rpc' = "idle" /\ presult' = e
  /\ isLoading' = FALSE
  /\ UNCHANGED <<entryUrl, rurl, depth, task>>

ParseFrame ==
  UNCHANGED <<params, taskVars, downloadQueue, pendingWrites, nextWriteIndex,
              completedCount, chainVars, workerVars, mainVars, finVars,
              aborted, pauseVars, blocked, streamVars, muxVars, doneCount,
              lastEvent, obsVars, ctrlObs, viewerVars, walkVars>>

\* the manifest request completes with r; parseM3U8 runs to its next await
ManifestArrivesWith(r) ==
  /\ rpc = "manifest"
  /\ m3u8Str' = r
  /\ IF r = Unreachable
       THEN ParseThrow("network") /\ UNCHANGED <<fetchCount, keyFetches>>
     ELSE IF r.kind \notin {"master", "media"}
       THEN ParseThrow("invalid") /\ UNCHANGED <<fetchCount, keyFetches>>
     ELSE IF r.kind = "master"
       THEN IF extractSubPlaylistUrl(r) = NoUrl
              THEN ParseThrow("novariant")
                   /\ UNCHANGED <<fetchCount, keyFetches>>
            ELSE IF DepthExceeded(depth + 1)
              THEN /\ rpc' = "idle" /\ presult' = "depth"
                   /\ isLoading' = FALSE /\ depth' = depth + 1
                   /\ UNCHANGED <<entryUrl, rurl, task, fetchCount, keyFetches>>
            ELSE /\ rurl' = extractSubPlaylistUrl(r)
                 /\ depth' = depth + 1
                 /\ fetchCount' = fetchCount + 1
                 /\ UNCHANGED <<rpc, entryUrl, presult, task, isLoading,
                                keyFetches>>
     ELSE IF r.keyUri # NoUrl
       THEN /\ rpc' = "key"
            /\ keyFetches' = keyFetches + 1
            /\ UNCHANGED <<entryUrl, rurl, depth, presult, task, isLoading,
                           fetchCount>>
     ELSE ParseReturn(Task(entryUrl, rurl, NoUrl, ""))
          /\ UNCHANGED <<fetchCount, keyFetches>>
  /\ UNCHANGED <<isOpen, editableUrl, added>>
  /\ ParseFrame

ManifestArrives == \E r \in Responses : ManifestArrivesWith(r)
ManifestArrivesPlain == \E r \in PlainResponses : ManifestArrivesWith(r)

\* the key request completes: keyResponse.arrayBuffer() becomes the key,
\* whatever the response is
KeyArrives ==
  /\ rpc = "key"
  /\ \E k \in KeyResponses :
       IF k = "unreachable" THEN ParseThrow("network")
       ELSE ParseReturn(Task(entryUrl, rurl, m3u8Str.keyUri, k))
  /\ UNCHANGED <<m3u8Str, fetchCount, keyFetches, isOpen, editableUrl, added>>
  /\ ParseFrame

\* the modal is opened for initialUrl u: the fields are reset, and the
\* effect on [isOpen, editableUrl] parses when there is a url, no task and no
\* parse in progress
OpenModal ==
  /\ ~isOpen
  /\ \E u \in {NoUrl} \cup Urls :
       /\ isOpen' = TRUE /\ editableUrl' = u
       /\ IF u # NoUrl /\ ~isLoading
            THEN /\ rpc' = "manifest" /\ entryUrl' = u /\ rurl' = u
                 /\ depth' = 0 /\ fetchCount' = 1 /\ keyFetches' = 0
                 /\ isLoading' = TRUE /\ UNCHANGED <<m3u8Str, presult>>
            ELSE UNCHANGED <<parseVars, isLoading>>
  /\ task' = NoTask
  /\ UNCHANGED added
  /\ ParseFrame

\* onChange of the url field
EditUrl ==
  /\ isOpen
  /\ \E u \in ({NoUrl} \cup Urls) \ {editableUrl} :
       /\ editableUrl' = u
       /\ IF u # NoUrl /\ task = NoTask /\ ~isLoading
            THEN ParseStart(u) /\ UNCHANGED m3u8Str
            ELSE UNCHANGED <<parseVars, isLoading, task>>
  /\ UNCHANGED <<isOpen, added>>
  /\ ParseFrame

\* the parse button, disabled without a url and while loading
handleParse ==
  /\ isOpen /\ editableUrl # NoUrl /\ ~isLoading
  /\ ParseStart(editableUrl)
  /\ UNCHANGED <<m3u8Str, isOpen, editableUrl, added>>
  /\ ParseFrame

\* the add button: onAddTask({url: editableUrl, ..., parsedTask: task}),
\* then the modal is closed and reset
handleAdd ==
  /\ isOpen /\ task # NoTask
  /\ added' = [url |-> editableUrl, parsedTask |-> task]
  /\ isOpen' = FALSE /\ task' = NoTask /\ editableUrl' = NoUrl
  /\ UNCHANGED <<parseVars, isLoading>>
  /\ ParseFrame

handleClose ==
  /\ isOpen
  /\ isOpen' = FALSE /\ task' = NoTask /\ editableUrl' = NoUrl
  /\ UNCHANGED <<parseVars, isLoading, added>>
  /\ ParseFrame

\* no download has been started
NotStarted ==
  /\ concurrency = 1 /\ maxRetries = 0
  /\ streamMode = "disabled" /\ writer = FALSE /\ taskType = "TS"
  /\ startSegment = 1 /\ endSegment = 1
  /\ signal = FALSE /\ pauseResumeController = FALSE
  /\ completeStreamRef = FALSE
  /\ TaskFresh /\ SessionFresh /\ ViewerClosed

\* parseM3U8 has just been called by the modal for some url
InitResolve ==
  /\ NotStarted /\ WalkIdle
  /\ isOpen = TRUE /\ editableUrl \in Urls /\ task = NoTask
  /\ isLoading = TRUE /\ added = NoAdd
  /\ rpc = "manifest" /\ entryUrl = editableUrl /\ rurl = editableUrl
  /\ depth = 0 /\ m3u8Str = NoDoc /\ fetchCount = 1 /\ keyFetches = 0
  /\ presult = "none"

NextResolve == ManifestArrives \/ KeyArrives

\* a request that was issued completes
SpecResolve == InitResolve /\ [][NextResolve]_vars /\ WF_vars(NextResolve)

InitModal == NotStarted /\ ParseIdle /\ ModalClosed /\ WalkIdle

NextModal ==
  \/ OpenModal \/ EditUrl \/ handleParse \/ ManifestArrivesPlain
  \/ handleAdd \/ handleClose

SpecModal == InitModal /\ [][NextModal]_vars

C24_RecursesOnHighestBandwidth ==
  [][(rpc = "manifest" /\ m3u8Str'.kind = "master") =>
       LET vs == m3u8Str'.variants
           declared(k) ==
             LET named == {a \in 1 .. Len(vs[k].attrs) :
                             vs[k].attrs[a].name = "BANDWIDTH"}
             IN  IF named = {} THEN 0
                 ELSE vs[k].attrs[CHOOSE a \in named : TRUE].value
           usable == {k \in 1 .. Len(vs) : vs[k].uri # NoUrl}
           best == {k \in usable : \A j \in usable : declared(k) >= declared(j)}
       IN  /\ (usable = {}) <=> (rpc' = "idle" /\ presult' = "novariant")
           /\ rpc' = "manifest" => rurl' \in {vs[k].uri : k \in best}]_vars

\* ---- C25 ----
\* C25: a manifest text without the magic header ends parseM3U8 with the
\* invalid-playlist error, with no further manifest request, no key request
\* and no Task; and a download is only added when the last parseM3U8 call
\* returned a Task.
C25_FailedParseAddsNothing ==
  /\ [][(ManifestArrivesPlain /\ m3u8Str'.kind = "other") =>
          /\ rpc' = "idle" /\ presult' = "invalid"
          /\ fetchCount' = fetchCount /\ keyFetches' = keyFetches
          /\ task' = task]_vars
  /\ [][handleAdd => presult = "task"]_vars

\* ---- C26 ----
\* C26: parseM3U8 requests the key at most once; a Task returned for a media
\* manifest with a key URI carries the key that one request fetched, and a
\* Task for a manifest without one carries no key.
C26_KeyFetchedOnceOrFails ==
  /\ keyFetches <= 1
  /\ (rpc = "idle" /\ presult = "task" /\ m3u8Str.keyUri # NoUrl) =>
       (keyFetches = 1 /\ task.key = "key")
  /\ (rpc = "idle" /\ presult = "task" /\ m3u8Str.keyUri = NoUrl) =>
       (keyFetches = 0 /\ task.key = "")

\* ---- C27 ----
\* C27: a progress event is emitted for every segment that becomes success
\* and for every segment that becomes error (no worker ends between marking
\* its segment error and the event that reports it), and when the run has
\* ended the last event emitted has status done or error.
C27_EveryOutcomeReported ==
  /\ [][\A i \in Range :
         (finishList'[i].status = "success" /\ finishList[i].status # "success")
           => lastEvent' = ProgressEvent(completedCount',
                                         Percentage(completedCount'),
                                         "downloading")]_vars
  /\ [](RunEnded =>
         \A w \in Launched :
           ~(werr[w] # "none" /\ finishList[widx[w]].status = "error"))
  /\ [](RunEnded => lastEvent.status \in {"done", "error"})

\* ---- C28 ----
\* C28: a run whose signal was aborted while it was active ends with the
\* cancellation error, not with a return, a done event or another error.
C28_CancelledRunRaisesCancel ==
  (aborted /\ RunEnded) => (mpc = "error" /\ merr = "cancel")

\* ---- C29 ----
\* C29: once the signal is aborted no segment becomes error, errorNum does
\* not grow and no failure marker is put into pendingWrites.
C29_CancelMarksNoFailure ==
  [][aborted =>
       /\ errorNum' <= errorNum
       /\ \A i \in Segs :
            /\ finishList'[i].status = "error" => finishList[i].status = "error"
            /\ pendingWrites'[i] = failed => pendingWrites[i] = failed]_vars

\* ---- SegmentViewer: retry of failed segments ----
ViewerFrame ==
  UNCHANGED <<params, downloadQueue, pendingWrites, nextWriteIndex,
              completedCount, chainVars, workerVars, mainVars, finVars,
              aborted, pauseVars, blocked, streamVars, muxVars, doneCount,
              lastEvent, taken, lateWrite, rejectedWrite, ctrlObs, parseVars,
              modalVars, walkVars>>

\* the viewer is shown for a task whose run returned to wait for retries
OpenViewer ==
  /\ ~Busy
  /\ ~viewing /\ mpc = "returned" /\ mergePc = "idle"
  /\ viewing' = TRUE
  /\ UNCHANGED <<rw, single, retryQueue, retryingSegments, clicks, mergePc,
                 merges, taskVars, attempts>>
  /\ ViewerFrame

\* onSegmentRetry: when every segment of the range is success and the task
\* is not marked as merging, mark it, close the viewer and start the timer
\* that calls resumeTask
onSegmentRetry(fl) ==
  IF (\A j \in Range : fl[j].status = "success") /\ mergePc = "idle"
    THEN mergePc' = "resume_timer" /\ viewing' = FALSE
    ELSE UNCHANGED <<mergePc, viewing>>

\* handleRetrySegment(i) from its fetch to its end; the status of the
\* segment is not looked at again
RetryCompletes(i, ok) ==
  /\ IF ok
       THEN /\ downloadedSegments' = SetSegment(i)
            /\ finishList' = [finishList EXCEPT ![i].status = "success"]
            /\ finishNum' = finishNum + 1
            /\ errorNum' = IF errorNum > 0 THEN errorNum - 1 ELSE 0
            /\ onSegmentRetry(finishList')
       ELSE UNCHANGED <<taskVars, mergePc, viewing>>
  /\ UNCHANGED <<clicks, merges>>

\* a click on a failed segment that is not shown as retrying
handleRetrySegment ==
  /\ ~Busy
  /\ viewing /\ streamMode = "disabled" /\ clicks < MaxClicks
  /\ \E i \in Segs :
       /\ finishList[i].status = "error" /\ i \notin retryingSegments
       /\ single' = single \cup {i}
       /\ retryingSegments' = retryingSegments \cup {i}
       /\ attempts' = [attempts EXCEPT ![i] = @ + 1]
  /\ clicks' = clicks + 1
  /\ UNCHANGED <<rw, retryQueue, viewing, mergePc, merges, taskVars>>
  /\ ViewerFrame

\* the fetch of a clicked segment completes
SingleRetryEnds ==
  /\ ~Busy
  /\ \E i \in single : \E ok \in BOOLEAN :
       /\ RetryCompletes(i, ok)
       /\ single' = single \ {i}
       /\ retryingSegments' = retryingSegments \ {i}
  /\ UNCHANGED <<rw, retryQueue, attempts>>
  /\ ViewerFrame

\* the retry-all button, enabled while retryingSegments is empty and a
\* segment is failed: the failed indices are queued and
\* min(concurrency, failed) workers take one each; their handleRetrySegment
\* sees the retryingSegments of this render, which is empty
handleRetryAllFailed ==
  /\ ~Busy
  /\ viewing /\ streamMode = "disabled" /\ clicks < MaxClicks
  /\ retryingSegments = {} /\ \A w \in Workers : rw[w] = NoSeg
  /\ LET failedIndices == {i \in Segs : finishList[i].status = "error"}
         queue == SelectSeq(RangeSeq(0, ListLen - 1),
                            LAMBDA i : i \in failedIndices)
         n == Min(concurrency, Len(queue))
     IN  /\ failedIndices # {}
         /\ rw' = [w \in Workers |-> IF w <= n THEN queue[w] ELSE NoSeg]
         /\ retryQueue' = SubSeq(queue, n + 1, Len(queue))
         /\ retryingSegments' = {queue[k] : k \in 1 .. n}
         /\ attempts' = [i \in Segs |->
                           IF \E k \in 1 .. n : queue[k] = i
                             THEN attempts[i] + 1 ELSE attempts[i]]
  /\ clicks' = clicks + 1
  /\ UNCHANGED <<single, viewing, mergePc, merges, taskVars>>
  /\ ViewerFrame

\* the fetch of a retry-all worker completes; the worker takes the next
\* index of retryQueue and fetches it
WorkerRetryEnds ==
  /\ ~Busy
  /\ \E w \in Workers : \E ok \in BOOLEAN :
       /\ rw[w] # NoSeg
       /\ RetryCompletes(rw[w], ok)
       /\ IF retryQueue = <<>>
            THEN /\ rw' = [rw EXCEPT ![w] = NoSeg]
                 /\ retryingSegments' = retryingSegments \ {rw[w]}
                 /\ UNCHANGED <<retryQueue, attempts>>
            ELSE /\ rw' = [rw EXCEPT ![w] = Head(retryQueue)]
                 /\ retryQueue' = Tail(retryQueue)
                 /\ retryingSegments' =
                      (retryingSegments \ {rw[w]}) \cup {Head(retryQueue)}
                 /\ attempts' = [attempts EXCEPT ![Head(retryQueue)] = @ + 1]
  /\ UNCHANGED single
  /\ ViewerFrame

\* 500 ms after the trigger: resumeTask finds no pending and no failed
\* segment and merges and saves the payload map
ResumeTimer ==
  /\ ~Busy
  /\ mergePc = "resume_timer"
  /\ mergePc' = "mark_timer"
  /\ merges' = merges + 1
  /\ UNCHANGED <<rw, single, retryQueue, retryingSegments, clicks, viewing,
                 taskVars, attempts>>
  /\ ViewerFrame

\* 3 s later: mergingTaskIds.current.delete(taskId)
MarkTimer ==
  /\ ~Busy
  /\ mergePc = "mark_timer"
  /\ mergePc' = "idle"
  /\ UNCHANGED <<rw, single, retryQueue, retryingSegments, clicks, viewing,
                 merges, taskVars, attempts>>
  /\ ViewerFrame

\* a buffered run without automatic retries, then the viewer
InitRetry ==
  /\ InitUnattended
  /\ streamMode = "disabled" /\ maxRetries = 0 /\ taskType = "TS"

NextRetry ==
  \/ \E w \in Workers :
       \/ WShift(w) \/ DSMark(w) \/ DSFetch(w) \/ FetchOk(w) \/ FetchFail(w)
       \/ DSDecrypt(w) \/ DSStore(w) \/ DSSuccess(w)
  \/ MainAll
  \/ OpenViewer \/ handleRetrySegment \/ SingleRetryEnds
  \/ handleRetryAllFailed \/ WorkerRetryEnds \/ ResumeTimer \/ MarkTimer

SpecRetry == InitRetry /\ [][NextRetry]_vars

\* ---- C30 ----
\* C30: a click on a failed segment fetches that segment only and queues
\* nothing; no segment that is success is fetched again; a retry that turns
\* a segment from error to success stores its payload and lowers errorNum
\* by one; when that makes every segment of the range success the merge is
\* triggered, and it is run at most once.
C30_RetryMergesOnce ==
  /\ [][handleRetrySegment =>
          /\ \A j \in Segs : attempts'[j] # attempts[j] => j \in single' \ single
          /\ downloadQueue' = downloadQueue /\ retryQueue' = retryQueue]_vars
  /\ [][\A j \in Segs :
          attempts'[j] > attempts[j] => finishList[j].status # "success"]_vars
  /\ [][\A i \in Range :
          (finishList[i].status = "error" /\ finishList'[i].status = "success")
            => /\ downloadedSegments'[i] # NoEntry
               /\ errorNum' = errorNum - 1
               /\ (\A j \in Range : finishList'[j].status = "success")
                    => mergePc' = "resume_timer"]_vars
  /\ [](merges <= 1)

\* ---- the write index of the sequencer ----
\* the destination accepted the payload of segment i (after the step)
SinkHolds(i, snk) ==
  \E k \in 1 .. Len(snk) : IsPayload(snk[k]) /\ PayloadIndex(snk[k]) = i

\* C31: nextWriteIndex starts at startSegment-1 and never decreases; it
\* advances by exactly one, and only when the entry for that index was
\* written to the sink or dropped as a failure marker; it never passes an
\* index that has no entry; every key left in pendingWrites is at least
\* nextWriteIndex; entries are removed by the flush chain only, at
\* nextWriteIndex.
C31_WriteIndexFollowsSink ==
  /\ [](/\ nextWriteIndex >= startSegment - 1
        /\ \A i \in Segs : pendingWrites[i] # NoEntry => i >= nextWriteIndex)
  /\ [][nextWriteIndex' # nextWriteIndex =>
          /\ nextWriteIndex' = nextWriteIndex + 1
          /\ pendingWrites[nextWriteIndex] # NoEntry
          /\ \/ pendingWrites[nextWriteIndex] = failed
             \/ SinkHolds(nextWriteIndex, sunk')]_vars
  /\ [][\A i \in Segs :
          (pendingWrites[i] # NoEntry /\ pendingWrites'[i] # pendingWrites[i])
            => /\ i = nextWriteIndex
               /\ pendingWrites'[i] = NoEntry
               /\ nextWriteIndex' = i + 1]_vars

\* ---- a paused run ----
\* the step hands a chunk to the stream that was not queued before
StartsSinkWrite ==
  /\ wq' # wq
  /\ wq' # <<>>
  /\ wq = <<>> \/ wq' # Tail(wq)

\* C32: while the controller is paused no worker takes an index from the
\* queue, starts a segment fetch or marks a segment success, no fetched
\* payload is stored, and no sink write is started; fetches in flight may
\* complete.
C32_PausedRunMakesNoProgress ==
  [][isPaused =>
       /\ downloadQueue' = downloadQueue
       /\ attempts' = attempts
       /\ \A i \in Segs :
            finishList'[i].status = "success" => finishList[i].status = "success"
       /\ \A i \in Segs :
            /\ pendingWrites'[i] \in {NoEntry, failed, pendingWrites[i]}
            /\ downloadedSegments'[i] \in {NoEntry, downloadedSegments[i]}
       /\ ~StartsSinkWrite]_vars

\* ---- completion of a streaming run ----
\* the step calls writer.write: the flush pass for the entry it found, or
\* the 'data' handler for the payload that follows the init segment
WriteCall ==
  \/ /\ passPc = "check" /\ passPc' # "check"
     /\ ~aborted
     /\ pendingWrites[nextWriteIndex] # failed
     /\ ~(streamingTransmuxer /\ writeError)
  \/ /\ wq # <<>> /\ Head(wq).stage = "init"
     /\ isFirstSegment /\ ~isFirstSegment'

\* C33: when a streaming run has completed normally the reorder buffer is
\* empty, nextWriteIndex equals endSegment and the sink holds the payload
\* of every successful segment of the range; no write is called on a sink
\* that is closing or closed.
C33_CompleteRunLeavesNothingBehind ==
  /\ []((writer /\ mpc = "done") =>
          /\ \A i \in Segs : pendingWrites[i] = NoEntry
          /\ nextWriteIndex = endSegment
          /\ \A i \in Range :
               finishList[i].status = "success" => SinkHolds(i, sunk))
  /\ [][(wstate \in {"closing", "closed"}) => (~WriteCall)]_vars

\* ---- sink failures behind the StreamingTransmuxer ----
\* the destination rejected a write, or rejected the close
SinkFailed == rejectedWrite \/ (wstate = "errored" /\ abortCount = 0)

\* a run nobody cancels, pauses or finalizes early, whose destination may
\* reject a write or the close
NextSink == NextUnattended \/ SinkReject \/ SinkCloseFail

SpecSink == InitUnattended /\ [][NextSink]_vars

\* C34: in a streaming run with re-muxed (MP4) output, once the sink has
\* rejected a write or the close, the run emits no done and, when it has
\* ended, it has ended with an error; the last segment included.
C34_TransmuxedWriteFailureIsFatal ==
  (streamingTransmuxer /\ SinkFailed) =>
    /\ doneCount = 0
    /\ RunEnded => mpc = "error"

\* ---- streaming requested, destination not opened ----
\* streamMode asks for streaming but no writer could be created
FellBack == streamMode # "disabled" /\ ~writer

\* C35: when streaming is requested but the destination cannot be opened
\* the run is a buffered run: payloads go to downloadedSegments, nothing
\* (payload or skip marker) enters pendingWrites, no flush pass is queued
\* and no sink is touched, no early-finalize function is installed, and
\* the run completes by the buffered policy: done with the merged range
\* when every segment succeeded, a wait for retries when one failed, an
\* error when nothing was downloaded.
C35_FallbackRunsBuffered ==
  FellBack =>
    /\ \A i \in Segs : pendingWrites[i] = NoEntry
    /\ chainLen = 0 /\ wq = <<>> /\ sunk = <<>>
    /\ closeCount = 0 /\ abortCount = 0
    /\ fpc = "idle"
    /\ \A i \in Range :
         finishList[i].status = "success" =>
           downloadedSegments[i] = SegmentData(i)
    /\ mpc = "done" =>
         /\ ~hasFailedSegments
         /\ artifact = (IF taskType = "MP4"
                        THEN transmuxTSToMP4(Collect(startSegment - 1,
                                                     endSegment - 1))
                        ELSE mergeSegments(Collect(startSegment - 1,
                                                   endSegment - 1)))
    /\ mpc = "returned" => (hasFailedSegments /\ doneCount = 0)
    /\ (mpc = "error" /\ merr = "nosegments") =>
         \A i \in Segs : downloadedSegments[i] = NoEntry

\* a fallen-back run, started with the early-finalize reference, that has
\* returned to wait for retries: a segment failed for good, another is stored
C35_Witness ==
  /\ FellBack /\ completeStreamRef
  /\ mpc = "returned"
  /\ \E i \in Range : downloadedSegments[i] # NoEntry

\* ---- statuses left by a run that has ended ----
\* C36: when the run has ended (returned or thrown) and every worker has
\* stopped, no segment of the range has status downloading: each one is
\* pending, success or error.
C36_NoSegmentLeftDownloading ==
  (RunEnded /\ Stopped) =>
    \A i \in Range : finishList[i].status \in {"", "success", "error"}

\* ---- a buffered task over runs, cancellations, resumes and retries ----
\* a buffered run started by DownloadManager with a signal
InitBuffered ==
  /\ Options
  /\ streamMode = "disabled"
  /\ signal = TRUE
  /\ pauseResumeController = FALSE
  /\ completeStreamRef = FALSE
  /\ Fresh

\* the run, its cancellation, the resumed session on the same task, and the
\* manual retries of the viewer with the merge they trigger
NextBuffered ==
  \/ \E w \in Workers :
       \/ WShift(w) \/ DSMark(w) \/ DSFetch(w) \/ FetchOk(w) \/ FetchFail(w)
       \/ DSDecrypt(w) \/ DSStore(w) \/ DSSuccess(w) \/ RetryTimer(w)
  \/ MainAll \/ Abort \/ resumeTask
  \/ OpenViewer \/ handleRetrySegment \/ SingleRetryEnds
  \/ handleRetryAllFailed \/ WorkerRetryEnds \/ ResumeTimer \/ MarkTimer

SpecBuffered == InitBuffered /\ [][NextBuffered]_vars

\* the payloads of the whole range, in index order
RangePayloads == [k \in 1 .. totalSegments |-> SegmentData(startSegment - 2 + k)]

C38_CountersMatchStatuses ==
  /\ finishNum = Cardinality({i \in Segs : finishList[i].status = "success"})
  /\ errorNum = Cardinality({i \in Segs : finishList[i].status = "error"})
  /\ finishNum <= ListLen

\* ---- parseM3U8 on a media manifest ----
\* the lines of a manifest text: '#EXTINF:<d>,', a segment uri, another
\* tag, a blank line
Inf(d) == [kind |-> "inf", v |-> d]
Uri(u) == [kind |-> "uri", v |-> u]
OtherTag == [kind |-> "tag", v |-> 0]
Blank == [kind |-> "blank", v |-> 0]
Lines == {Inf(d) : d \in 1 .. 2} \cup {Uri(u) : u \in Urls} \cup {OtherTag, Blank}

RECURSIVE Manifests(_)
Manifests(n) ==
  IF n = 0 THEN {<<>>}
  ELSE Manifests(n - 1) \cup
       {Append(m, l) : m \in {x \in Manifests(n - 1) : Len(x) = n - 1},
                       l \in Lines}

\* let lastDuration: number | null = null
NoDuration == 0 - 1

\* task.durationSecond += lastDuration, at every '#EXTINF:' line
AddDuration(t, l) ==
  IF l.kind = "inf" THEN t.durationSecond + l.v ELSE t.durationSecond

RECURSIVE Walk(_, _, _, _)
\* for (const line of lines) { ... }
Walk(ls, k, lastDuration, t) ==
  IF k > Len(ls) THEN t
  ELSE LET l == ls[k]
           d == AddDuration(t, l)
       IN  IF l.kind = "inf"
           THEN Walk(ls, k + 1, l.v, [t EXCEPT !.durationSecond = d])
           ELSE IF l.kind = "uri"
           THEN Walk(ls, k + 1, NoDuration,
                     [t EXCEPT
                        !.tsUrlList = Append(@, l.v),
                        !.finishList = Append(@, ""),
                        !.segmentDurations =
                           Append(@, IF lastDuration = NoDuration
                                     THEN 0 ELSE lastDuration),
                        !.durationSecond = d])
           ELSE Walk(ls, k + 1, lastDuration, [t EXCEPT !.durationSecond = d])

\* parseM3U8 from the task literal to the range assignment
parseMedia ==
  /\ mediaTask = NoMedia
  /\ LET t == Walk(lines, 1, NoDuration,
                   [NoMedia EXCEPT !.durationSecond = 0, !.startSegment = 1])
     IN  mediaTask' = [t EXCEPT !.endSegment = Len(t.tsUrlList)]
  /\ UNCHANGED <<params, taskVars, downloadQueue, pendingWrites,
                 nextWriteIndex, completedCount, chainVars, workerVars,
                 mainVars, finVars, aborted, pauseVars, blocked, streamVars,
                 muxVars, doneCount, lastEvent, obsVars, ctrlObs, parseVars,
                 modalVars, viewerVars, lines>>

\* parseM3U8 has fetched a media manifest of at most MaxLines lines
InitWalk ==
  /\ NotStarted /\ ParseIdle /\ ModalClosed
  /\ lines \in Manifests(MaxLines)
  /\ mediaTask = NoMedia

SpecWalk == InitWalk /\ [][parseMedia]_vars

RECURSIVE Sum(_)
Sum(q) == IF q = <<>> THEN 0 ELSE Head(q) + Sum(Tail(q))

\* the uri lines of the manifest, in order
UriLines == SelectSeq(lines, LAMBDA l : l.kind = "uri")

\* position in lines of the k-th uri line
RECURSIVE UriPos(_, _)
UriPos(k, from) ==
  IF lines[from].kind = "uri"
  THEN (IF k = 1 THEN from ELSE UriPos(k - 1, from + 1))
  ELSE UriPos(k, from + 1)

\* the duration tags between the uri line before the k-th one and the k-th
DurationsBefore(k) ==
  LET hi == UriPos(k, 1)
      lo == IF k = 1 THEN 0 ELSE UriPos(k - 1, 1)
  IN  SelectSeq(SubSeq(lines, lo + 1, hi - 1), LAMBDA l : l.kind = "inf")

\* C39: after parsing a media manifest tsUrlList, finishList and
\* segmentDurations have one entry per segment uri line, in manifest order;
\* the duration of a segment is that of the duration tag before its uri
\* line; every status is pending; durationSecond is the sum of
\* segmentDurations; the default range is 1 .. number of segments.
C39_MediaManifestWalk ==
  mediaTask # NoMedia =>
    LET n == Len(UriLines)
    IN  /\ Len(mediaTask.tsUrlList) = n
        /\ Len(mediaTask.finishList) = n
        /\ Len(mediaTask.segmentDurations) = n
        /\ \A k \in 1 .. n :
             /\ mediaTask.tsUrlList[k] = UriLines[k].v
             /\ mediaTask.finishList[k] = ""
             /\ LET ds == DurationsBefore(k)
                IN  mediaTask.segmentDurations[k] =
                      (IF ds = <<>> THEN 0 ELSE ds[Len(ds)].v)
        /\ mediaTask.durationSecond = Sum(mediaTask.segmentDurations)
        /\ mediaTask.startSegment = 1 /\ mediaTask.endSegment = n

\* ---- progress events of a long range ----
\* a buffered run over the first endSegment segments of a long list, at the
\* moment its workers have all returned: the first completedCount segments
\* succeeded, the others failed for good
InitLongRange ==
  /\ concurrency = 1 /\ maxRetries = 0
  /\ streamMode = "disabled" /\ writer = FALSE /\ taskType = "TS"
  /\ signal = FALSE /\ pauseResumeController = FALSE
  /\ completeStreamRef = FALSE
  /\ startSegment = 1 /\ endSegment \in 1 .. MaxRange
  /\ completedCount \in 0 .. endSegment
  /\ finishList = [i \in 0 .. (MaxRange - 1) |->
                     [status |-> IF i < completedCount THEN "success"
                                 ELSE IF i < endSegment THEN "error" ELSE "",
                      retryCount |-> 0]]
  /\ downloadedSegments = [i \in 0 .. (MaxRange - 1) |->
                             IF i < completedCount THEN SegmentData(i)
                             ELSE NoEntry]
  /\ finishNum = completedCount /\ errorNum = endSegment - completedCount
  /\ downloadQueue = <<>>
  /\ pendingWrites = [i \in Segs |-> NoEntry] /\ nextWriteIndex = 0
  /\ chainLen = 0 /\ chainDone = 0 /\ chainErr = "none" /\ passPc = "idle"
  /\ wpc = [w \in Workers |-> IF w = 1 THEN "exit" ELSE "unused"]
  /\ widx = [w \in Workers |-> IF w = 1 THEN endSegment - 1 ELSE 0]
  /\ wretry = [w \in Workers |-> 0] /\ wawait = [w \in Workers |-> 0]
  /\ werr = [w \in Workers |-> "none"] /\ firstReject = "none"
  /\ mpc = "await_all" /\ mawait = 0 /\ merr = "none" /\ artifact = <<>>
  /\ fpc = "idle" /\ fawait = 0
  /\ aborted = FALSE
  /\ isPaused = FALSE /\ pausePromise = FALSE /\ resumeResolve = FALSE
  /\ blocked = {}
  /\ wstate = "writable" /\ wq = <<>> /\ sunk = <<>>
  /\ closeCount = 0 /\ abortCount = 0
  /\ isFirstSegment = TRUE /\ writeError = FALSE
  /\ doneCount = 0
  /\ lastEvent = ProgressEvent(completedCount, Percentage(completedCount),
                               "downloading")
  /\ taken = [i \in Segs |-> 0] /\ attempts = [i \in Segs |-> 0]
  /\ lateWrite = FALSE /\ rejectedWrite = FALSE
  /\ orphaned = {} /\ lastCall = NoCall
  /\ ParseIdle /\ ModalClosed /\ ViewerClosed /\ WalkIdle

SpecLongRange == InitLongRange /\ [][MainAll]_vars

\* C40: an event with status downloading never reports more segments than
\* the range has, and reports percentage 100 only when current = total.
C40_NoFullPercentageBeforeDone ==
  lastEvent.status = "downloading" =>
    /\ lastEvent.current <= lastEvent.total
    /\ lastEvent.percentage = 100 => lastEvent.current = lastEvent.total

====
